---- MODULE Spec2Model ----
(***************************************************************************)
(* Model of the correlation and insight engine of daily-diary              *)
(* (src/src/daily_diary/services/analysis.py) and of the two stores it     *)
(* reads: the SQLite analytics database (services/database.py) and the     *)
(* TinyDB JSON diary (services/storage.py).                                *)
(*                                                                         *)
(* Conventions.  A calendar date is a day ordinal (an integer); ISO date   *)
(* strings of equal length order exactly as their dates do.  Python None,  *)
(* SQL NULL and pandas NaN of a data column are all the value Null.        *)
(* Booleans stored in a table are 0 / 1, as in the SQLite schema.          *)
(*                                                                         *)
(* Spec is the feature-table builder over stores that are written between  *)
(* calls; AnalysisSpec is the correlation and lag analyzers over stores    *)
(* that hold a sample diary; StrengthSpec is the two strength functions;   *)
(* PatternSpec is the pattern detector over sample diaries of several      *)
(* weeks; MedicationSpec is the medication effectiveness analyzer over     *)
(* the symptoms and medications tables of a sample diary; InsightSpec is   *)
(* the insight generator over sample diaries of three weeks; ServiceSpec   *)
(* is every analysis operation of the service over one sample diary;       *)
(* EntrySpec is a DiaryEntry object (models/entry.py) a caller adds        *)
(* symptoms to; StorageSpec is the JSON diary written and read through     *)
(* DiaryStorage.                                                           *)
(***************************************************************************)
EXTENDS Integers, Sequences, FiniteSets, TLC

\* ------------------------------------------------------------------ bounds
MaxDate == 3              \* the diary covers the dates 1..MaxDate
MaxMinDays == 2           \* min_days is drawn from 0..MaxMinDays
FirstWeekday == 3         \* date.weekday() of the day before date 1

Dates == 1..MaxDate
Null == 0 - 1

\* date.weekday(): Monday is 0 and Sunday is 6
weekday(d) == (d + FirstWeekday) % 7

\* ------------------------------------------------------- sample diary entries
\* The diary entry written for a date.  What an entry holds varies with the
\* date: the level of its values, whether a symptom was logged, and whether
\* the weather and sleep integrations delivered data for that day.
Level(d) == (2 * d) % 3

DiaryEntry(d) ==
    [ entry_date |-> d,
      severity |-> IF Level(d) = 0 THEN << >> ELSE <<2 + Level(d)>>,
      has_sleep |-> d % 3 # 2,
      sleep_score |-> IF d % 3 # 2 THEN 60 + 10 * Level(d) ELSE Null,
      total_sleep_minutes |-> IF d % 3 # 2 THEN 360 + 60 * Level(d) ELSE Null,
      has_weather |-> d % 2 = 1,
      pressure_hpa |-> IF d % 2 = 1 THEN 1000 + 5 * Level(d) ELSE Null,
      activity_minutes |-> 30 * Level(d),
      elevation_gain |-> 100 * Level(d),
      alcohol_units |-> (d + 1) % 3 ]

VARIABLES
    daily_summary,   \* SQLite table daily_summary: entry_date -> row
    daily_factors,   \* SQLite table daily_factors: entry_date -> row
    symptoms,        \* SQLite table symptoms: entry_date -> the rows of the date
    medications,     \* SQLite table medications: entry_date -> the rows of the date
    diary,           \* TinyDB documents of diary.json, in insertion order
    storage_db,      \* AnalysisService.storage._db: "none", "open" or "closed"
    call,            \* the arguments of the last analysis call
    outcome,         \* "none" (no call yet), "returned" or "raised"
    df,              \* the table the last build_dataframe call returned
    repeated,        \* the last call repeated the one before it on unchanged stores
    results          \* the list the last analysis call returned

stores == <<daily_summary, daily_factors, symptoms, medications, diary>>
vars == <<daily_summary, daily_factors, symptoms, medications, diary, storage_db, call,
          outcome, df, repeated, results>>

\* ------------------------------------------------------------ list helpers
Max(a, b) == IF a >= b THEN a ELSE b

RECURSIVE MaxOf(_)
MaxOf(s) == IF s = << >> THEN Null ELSE Max(Head(s), MaxOf(Tail(s)))

\* entries.sort(key=lambda e: e.entry_date): a stable ascending sort
RECURSIVE InsertEntry(_, _)
InsertEntry(e, s) ==
    IF s = << >> THEN <<e>>
    ELSE IF e.entry_date < Head(s).entry_date THEN <<e>> \o s
    ELSE <<Head(s)>> \o InsertEntry(e, Tail(s))

RECURSIVE SortEntries(_)
SortEntries(s) ==
    IF s = << >> THEN << >>
    ELSE InsertEntry(s[Len(s)], SortEntries(SubSeq(s, 1, Len(s) - 1)))

\* DataFrame.set_index('date').sort_index(): rows in ascending order of the index
RECURSIVE InsertRow(_, _)
InsertRow(r, s) ==
    IF s = << >> THEN <<r>>
    ELSE IF r.date < Head(s).date THEN <<r>> \o s
    ELSE <<Head(s)>> \o InsertRow(r, Tail(s))

RECURSIVE sort_index(_)
sort_index(s) ==
    IF s = << >> THEN << >>
    ELSE InsertRow(s[Len(s)], sort_index(SubSeq(s, 1, Len(s) - 1)))

IsAscending(rows) ==
    \A i \in 1..(Len(rows) - 1) : rows[i].date < rows[i + 1].date

\* ------------------------------------------------------------ SQLite store
\* AnalyticsDB._update_daily_summary: INSERT OR REPLACE of the day's row; the
\* columns the statement does not list take their schema defaults.
SummaryRow(e) ==
    [ entry_date |-> e.entry_date,
      symptom_count |-> Len(e.severity),
      worst_symptom_severity |-> MaxOf(e.severity),
      has_headache |-> IF e.severity # << >> THEN 1 ELSE 0,
      sleep_score |-> IF e.has_sleep THEN e.sleep_score ELSE Null,
      total_sleep_minutes |-> IF e.has_sleep THEN e.total_sleep_minutes ELSE Null,
      total_activity_minutes |-> e.activity_minutes,
      total_elevation_m |-> e.elevation_gain,
      total_alcohol_units |-> e.alcohol_units,
      total_caffeine_mg |-> 0,
      pressure_hpa |-> IF e.has_weather THEN e.pressure_hpa ELSE Null ]

upsert_entry(ds, e) ==
    [d \in (DOMAIN ds) \cup {e.entry_date} |->
        IF d = e.entry_date THEN SummaryRow(e) ELSE ds[d]]

\* The symptoms and the medications an entry carries.  An entry that lists
\* only severities carries one headache per severity, without onset time.
EntrySymptoms(e) ==
    IF "symptoms" \in DOMAIN e THEN e.symptoms
    ELSE [i \in 1..Len(e.severity) |->
             [symptom_type |-> "headache", severity |-> e.severity[i],
              onset_time |-> Null]]

EntryMedications(e) ==
    IF "medications" \in DOMAIN e THEN e.medications ELSE << >>

\* AnalyticsDB.upsert_entry: DELETE FROM t WHERE entry_date = ?, then one
\* INSERT for each item of the entry
replace_rows(t, d, items) ==
    LET rows == [i \in 1..Len(items) |-> [entry_date |-> d] @@ items[i]]
    IN  [x \in IF rows = << >> THEN (DOMAIN t) \ {d} ELSE (DOMAIN t) \cup {d} |->
            IF x = d THEN rows ELSE t[x]]

\* AnalyticsDB.get_analysis_data: daily_summary LEFT JOIN daily_factors, the
\* dates of the closed range, ORDER BY entry_date.
RECURSIVE SelectSummary(_, _, _, _)
SelectSummary(ds, fac, start, end) ==
    IF start > end THEN << >>
    ELSE (IF start \in DOMAIN ds
          THEN << ds[start] @@ [ cat_in_room |->
                     IF start \in DOMAIN fac THEN fac[start].cat_in_room ELSE Null ] >>
          ELSE << >>)
         \o SelectSummary(ds, fac, start + 1, end)

get_analysis_data(ds, fac, start, end) == SelectSummary(ds, fac, start, end)

\* -------------------------------------------------------------- JSON store
HasDoc(docs, d) == \E i \in 1..Len(docs) : docs[i].entry_date = d

\* A save_entry that inserts without looking for a document of that date
save_entry_inserts(docs, e) == Append(docs, e)

\* DiaryStorage.save_entry: update every document of that date, else insert
save_entry(docs, e) ==
    IF HasDoc(docs, e.entry_date)
    THEN [i \in 1..Len(docs) |->
             IF docs[i].entry_date = e.entry_date THEN e ELSE docs[i]]
    ELSE Append(docs, e)

\* DiaryStorage.delete_entry
InDate(e, d) == e.entry_date = d
delete_entry(docs, d) == SelectSeq(docs, LAMBDA e : ~InDate(e, d))

\* DiaryStorage.db: opens diary.json when no handle is held
db(handle) == IF handle = "none" THEN "open" ELSE handle

\* A close that closes the handle and keeps holding it
close_keeps_handle(handle) == IF handle = "none" THEN "none" ELSE "closed"

\* DiaryStorage.close: closes the handle and forgets it
close(handle) == "none"

\* DiaryStorage.get_entries_in_range: search, then sort by entry_date
get_entries_in_range(docs, start, end) ==
    SortEntries(SelectSeq(docs,
        LAMBDA e : e.entry_date >= start /\ e.entry_date <= end))

\* ------------------------------------------------------------- the builder
\* Series.shift(lag): row i takes the value of row i - lag, the first rows NaN
shift(rows, col, lag) ==
    [i \in 1..Len(rows) |-> IF i > lag THEN rows[i - lag][col] ELSE Null]

Columns(rows) == IF rows = << >> THEN {} ELSE (DOMAIN rows[1]) \ {"date"}

\* The columns build_dataframe lags on the SQLite path, with their new names
SqlLagged ==
    { <<"total_activity_minutes", "total_activity_minutes_prev_day">>,
      <<"total_elevation_m", "total_elevation_m_prev_day">>,
      <<"total_alcohol_units", "total_alcohol_units_prev_day">>,
      <<"sleep_score", "sleep_score_prev_day">>,
      <<"total_sleep_minutes", "total_sleep_minutes_prev_day">>,
      <<"total_caffeine_mg", "total_caffeine_mg_prev_day">>,
      <<"pressure_hpa", "pressure_hpa_prev_day">> }

\* The columns build_dataframe lags on the JSON path
JsonLagged ==
    { <<"total_activity_minutes", "total_activity_minutes_prev_day">>,
      <<"elevation_gain", "elevation_gain_prev_day">>,
      <<"alcohol_units", "alcohol_units_prev_day">>,
      <<"sleep_score", "sleep_score_prev_day">>,
      <<"total_sleep_hours", "total_sleep_hours_prev_day">> }

\* for col in [...]: if col in df.columns: df[col + '_prev_day'] = df[col].shift(1)
add_prev_day(rows, lagged) ==
    LET present == {p \in lagged : p[1] \in Columns(rows)}
        source(n) == (CHOOSE p \in present : p[2] = n)[1]
    IN  [i \in 1..Len(rows) |->
            [n \in {p[2] : p \in present} |-> shift(rows, source(n), 1)[i]]
            @@ rows[i]]

\* The SQLite branch of build_dataframe, once the query has returned its rows
sql_frame(result) ==
    LET dated == [i \in 1..Len(result) |->
                     [date |-> result[i].entry_date] @@ result[i]]
        sorted == sort_index(dated)
        derived == [i \in 1..Len(sorted) |->
                     [day_of_week |-> weekday(sorted[i].date),
                      is_weekend |-> IF weekday(sorted[i].date) >= 5 THEN 1 ELSE 0]
                     @@ sorted[i]]
    IN  add_prev_day(derived, SqlLagged)

\* AnalysisService._entry_to_row: the weather and sleep keys exist only when the
\* entry carries weather and sleep data
_entry_to_row(e) ==
    [ date |-> e.entry_date,
      day_of_week |-> weekday(e.entry_date),
      is_weekend |-> IF weekday(e.entry_date) >= 5 THEN 1 ELSE 0,
      has_symptoms |-> IF Len(e.severity) > 0 THEN 1 ELSE 0,
      symptom_count |-> Len(e.severity),
      worst_symptom_severity |-> IF e.severity = << >> THEN 0 ELSE MaxOf(e.severity),
      has_headache |-> IF e.severity # << >> THEN 1 ELSE 0,
      alcohol_units |-> e.alcohol_units,
      total_activity_minutes |-> e.activity_minutes,
      elevation_gain |-> e.elevation_gain ]
    @@ (IF e.has_weather THEN [pressure_hpa |-> e.pressure_hpa] ELSE << >>)
    @@ (IF e.has_sleep
        THEN [sleep_score |-> e.sleep_score,
              total_sleep_hours |-> e.total_sleep_minutes \div 60]
        ELSE << >>)

\* pd.DataFrame(rows): the columns are the union of the keys, a missing key is NaN
DataFrame(rows) ==
    LET keys == UNION {DOMAIN rows[i] : i \in 1..Len(rows)}
    IN  [i \in 1..Len(rows) |->
            [c \in keys |-> IF c \in DOMAIN rows[i] THEN rows[i][c] ELSE Null]]

\* The JSON branch of build_dataframe.  The handle is opened by the query and
\* closed when the with block is left, also when the query raised.  With no
\* entries and min_days <= 0 the frame has no 'date' column and df['date'] raises.
json_branch(docs, handle, start, end, min_days, json_fails) ==
    LET opened == db(handle)
        failed == json_fails \/ opened = "closed"
        entries == get_entries_in_range(docs, start, end)
        frame == DataFrame([i \in 1..Len(entries) |-> _entry_to_row(entries[i])])
    IN  IF failed
        THEN [outcome |-> "raised", df |-> << >>, handle |-> close(opened)]
        ELSE IF Len(entries) < min_days
        THEN [outcome |-> "returned", df |-> << >>, handle |-> close(opened)]
        ELSE IF "date" \notin UNION {DOMAIN frame[i] : i \in 1..Len(frame)}
        THEN [outcome |-> "raised", df |-> << >>, handle |-> close(opened)]
        ELSE [outcome |-> "returned",
              df |-> add_prev_day(sort_index(frame), JsonLagged),
              handle |-> close(opened)]

\* AnalysisService.build_dataframe
build_dataframe(ds, fac, docs, handle, c) ==
    LET result == get_analysis_data(ds, fac, c.start, c.end)
    IN  IF c.use_db /\ ~c.sqlite_fails /\ result # << >> /\ Len(result) >= c.min_days
        THEN [outcome |-> "returned", df |-> sql_frame(result), handle |-> handle]
        ELSE json_branch(docs, handle, c.start, c.end, c.min_days, c.json_fails)

\* ------------------------------------------------------ what a call writes
\* AnalyticsDB._init_schema, run when a connection is opened: every statement
\* is CREATE TABLE IF NOT EXISTS or CREATE INDEX IF NOT EXISTS, which leaves
\* the rows of an existing table as they are
_init_schema_recreates(t) == << >>

_init_schema(t) == t

\* The stores after an analysis call.  A call that queries SQLite opens a
\* connection (AnalyticsDB.conn) and runs SELECT statements; the JSON diary is
\* read through TinyDB.search
ReadStores(sqlite) ==
    /\ daily_summary' = IF sqlite THEN _init_schema(daily_summary) ELSE daily_summary
    /\ daily_factors' = IF sqlite THEN _init_schema(daily_factors) ELSE daily_factors
    /\ symptoms' = IF sqlite THEN _init_schema(symptoms) ELSE symptoms
    /\ medications' = IF sqlite THEN _init_schema(medications) ELSE medications
    /\ diary' = diary

\* --------------------------------------------------------------- the system
NoCall == [op |-> "none", start |-> 0, end |-> 0, min_days |-> 0,
           use_db |-> FALSE, sqlite_fails |-> FALSE, json_fails |-> FALSE]

Init ==
    /\ daily_summary = << >>
    /\ daily_factors = << >>
    /\ symptoms = << >>
    /\ medications = << >>
    /\ diary = << >>
    /\ storage_db = "none"
    /\ call = NoCall
    /\ outcome = "none"
    /\ df = << >>
    /\ repeated = FALSE
    /\ results = << >>

\* The stores are written between analysis calls, not while a result is held
Idle == outcome = "none"

\* cli.py / web routes: storage.save_entry(entry)
SaveEntry(d) ==
    /\ Idle
    /\ diary' = save_entry(diary, DiaryEntry(d))
    /\ UNCHANGED <<daily_summary, daily_factors, symptoms, medications, storage_db, call,
                   outcome, df, repeated, results>>

\* storage.delete_entry(entry_date)
DeleteEntry(d) ==
    /\ Idle
    /\ diary' = delete_entry(diary, d)
    /\ UNCHANGED <<daily_summary, daily_factors, symptoms, medications, storage_db, call,
                   outcome, df, repeated, results>>

\* cli.py / web routes: analytics.upsert_entry(entry)
UpsertEntry(d) ==
    /\ Idle
    /\ daily_summary' = upsert_entry(daily_summary, DiaryEntry(d))
    /\ symptoms' = replace_rows(symptoms, d, EntrySymptoms(DiaryEntry(d)))
    /\ medications' = replace_rows(medications, d, EntryMedications(DiaryEntry(d)))
    /\ UNCHANGED <<daily_factors, diary, storage_db, call, outcome, df, repeated, results>>

\* service.build_dataframe(start_date, end_date, min_days)
BuildDataframe(c) ==
    /\ \E r \in {build_dataframe(daily_summary, daily_factors, diary, storage_db, c)} :
          /\ call' = c
          /\ outcome' = r.outcome
          /\ df' = r.df
          /\ storage_db' = r.handle
    /\ repeated' = ~Idle
    /\ ReadStores(c.use_db)
    /\ UNCHANGED results

\* A first call
FirstCall(c) == Idle /\ BuildDataframe(c)

\* The same call once more, while the result of the first is held
SameCallAgain == ~Idle /\ BuildDataframe(call)

\* The caller drops the result it holds
Discard ==
    /\ ~Idle
    /\ call' = NoCall
    /\ outcome' = "none"
    /\ df' = << >>
    /\ repeated' = FALSE
    /\ results' = << >>
    /\ UNCHANGED <<stores, storage_db>>

\* The calls made: a range of dates, a threshold, the service's use_db flag,
\* and whether each store's query fails during the call
Calls ==
    { [op |-> "build_dataframe", start |-> s, end |-> e, min_days |-> m,
       use_db |-> u, sqlite_fails |-> sf, json_fails |-> jf] :
        s \in Dates, e \in Dates, m \in 0..MaxMinDays,
        u \in BOOLEAN, sf \in BOOLEAN, jf \in BOOLEAN }

Next ==
    \/ \E d \in Dates : SaveEntry(d)
    \/ \E d \in Dates : DeleteEntry(d)
    \/ \E d \in Dates : UpsertEntry(d)
    \/ \E c \in {x \in Calls : x.sqlite_fails => x.use_db} : FirstCall(c)
    \/ SameCallAgain
    \/ Discard

Spec == Init /\ [][Next]_vars

\* ------------------------------------------------- claims about the builder
Called == outcome # "none"
NoStorageFailure == ~call.sqlite_fails /\ ~call.json_fails

\* The number of daily records each store holds in the range of the call
SummaryRowsInRange ==
    Cardinality({d \in DOMAIN daily_summary : call.start <= d /\ d <= call.end})
DocsInRange ==
    Len(SelectSeq(diary,
        LAMBDA e : call.start <= e.entry_date /\ e.entry_date <= call.end))

\* C1: for every date range and every min_days, build_dataframe returns a table
\* that is empty or has at least min_days rows in ascending date order, and
\* the table is empty when neither store holds min_days records in the range.
\* (Stated for the calls in which no storage query fails.)
C1_ReturnsEmptyOrSortedTable ==
    (Called /\ NoStorageFailure) =>
        /\ outcome = "returned"
        /\ df = << >> \/ (Len(df) >= call.min_days /\ IsAscending(df))
        /\ (SummaryRowsInRange < call.min_days /\ DocsInRange < call.min_days)
              => df = << >>

\* C2: a storage query that fails inside build_dataframe never reaches the
\* caller as an exception: the call returns a table.  (Stated for min_days >= 1,
\* where a call without a failing query always returns.)
C2_StorageFailureReturnsTable ==
    (Called /\ ~NoStorageFailure /\ call.min_days >= 1) => outcome = "returned"

\* The flow-sensitive columns under the names either path gives them
FlowSensitive == SqlLagged \cup JsonLagged

\* column prev of the table is column col shifted down by one row
IsShiftOfOne(rows, col, prev) ==
    /\ prev \in Columns(rows)
    /\ rows[1][prev] = Null
    /\ \A i \in 2..Len(rows) : rows[i][prev] = rows[i - 1][col]

\* C3: in every non-empty table returned, each flow-sensitive column present
\* has a _prev_day column holding its value of the row before (null in the
\* first row), whatever the dates of the two rows.
C3_EveryFlowColumnHasPrevDay ==
    (outcome = "returned" /\ df # << >>) =>
        \A p \in FlowSensitive :
            p[1] \in Columns(df) => IsShiftOfOne(df, p[1], p[2])

\* C4: calling build_dataframe again with the same arguments, the stores
\* unchanged and their queries failing or not as before, gives the same
\* result: the same rows, columns and row order.
C4_SameCallSameTable ==
    [][(Called /\ call' = call /\ UNCHANGED stores)
          => (outcome' = outcome /\ df' = df)]_vars

\* a non-empty table was built twice
C4_Witness == repeated /\ outcome = "returned" /\ Len(df) >= 2

\* ===================================================== the correlation engine
MaxDays == 12             \* the sample diaries cover the dates 1..MaxDays
MaxLag == 2               \* max_lag_days is drawn from 0..MaxLag
DefaultMinDays == 7       \* build_dataframe(..., min_days: int = 7)
MinSamples == 5           \* if len(x) < 5: continue
MinLagSamples == 10       \* if len(x) < 10: continue

\* ------------------------------------------------------- sample diaries
\* Day-by-day series, repeating after their last day: the level a tracked
\* quantity has on a day, Null when the day has no data for it.
SampleSeries ==
    << <<0, 0, 0, 0, 0, 0, 0, 0, 0, 0, 0, 0>>,
       <<1, 0, 1, 0, 1, 1, 1, 1, 1, 0, 0, 1>>,
       <<0, 4, 4, 3, 3, 1, 0, 0, 0, 2, 3, 1>>,
       <<2, 0, 2, 0, 3, 0, Null, 1, 2, Null, 0, 0>>,
       <<1, 2, 3, 3, 2, 1, 0, 1, 2, 3, 3, 2>>,
       <<1, 0, 1, 0, 1, 0, 1, 0, 1, 0, 1, 0>> >>

SeriesAt(k, d) == SampleSeries[k][((d - 1) % Len(SampleSeries[k])) + 1]

\* A sample diary picks one series for the symptoms, one but the last for the
\* sleep and the weather integration, and the first or the last for the
\* activities
Profiles ==
    [symptom : DOMAIN SampleSeries, sleep : 1..(Len(SampleSeries) - 1),
     weather : 1..(Len(SampleSeries) - 1), activity : {1, Len(SampleSeries)}]

\* The entry of sample diary k for date d: a symptom of the day's level when
\* the level is positive; sleep and weather data when the day has a level
SampleEntry(k, d) ==
    LET sym == SeriesAt(k.symptom, d)
        slp == SeriesAt(k.sleep, d)
        wth == SeriesAt(k.weather, d)
        act == SeriesAt(k.activity, d)
    IN  [ entry_date |-> d,
          severity |-> IF sym > 0 THEN <<sym>> ELSE << >>,
          has_sleep |-> slp # Null,
          sleep_score |-> IF slp # Null THEN 60 + 10 * slp ELSE Null,
          total_sleep_minutes |-> IF slp # Null THEN 360 + 60 * slp ELSE Null,
          has_weather |-> wth # Null,
          pressure_hpa |-> IF wth # Null THEN 1000 + 5 * wth ELSE Null,
          activity_minutes |-> IF act # Null THEN 30 * act ELSE 0,
          elevation_gain |-> IF act # Null THEN 50 * act ELSE 0,
          alcohol_units |-> 0 ]

\* The two stores after the entries of dates 1..n were saved and synced
RECURSIVE SavedDiary(_, _)
SavedDiary(k, n) ==
    IF n = 0 THEN << >> ELSE save_entry(SavedDiary(k, n - 1), SampleEntry(k, n))

RECURSIVE SyncedSummary(_, _)
SyncedSummary(k, n) ==
    IF n = 0 THEN << >> ELSE upsert_entry(SyncedSummary(k, n - 1), SampleEntry(k, n))

RECURSIVE SyncedSymptoms(_, _)
SyncedSymptoms(k, n) ==
    IF n = 0 THEN << >>
    ELSE replace_rows(SyncedSymptoms(k, n - 1), n, EntrySymptoms(SampleEntry(k, n)))

\* AnalyticsDB.sync_quick_log: the quick log is filled in on two days of three
sync_quick_log(n) ==
    [d \in {x \in 1..n : x % 3 # 0} |-> [cat_in_room |-> IF d % 2 = 0 THEN 1 ELSE 0]]

\* ------------------------------------------------------ floating point values
\* A correlation coefficient r is held exactly, as its sign and the fraction
\* r^2 = num / den; the value with den = 0 is NaN.  A p-value is held in units
\* of 10^-5, and the p-value Null is NaN.
NaN == [sgn |-> 0, num |-> 0, den |-> 0]
isnan(r) == r.den = 0

\* a / b < c / d, for a, c >= 0 and b, d > 0, by comparing continued fractions
RECURSIVE FracLess(_, _, _, _)
FracLess(a, b, c, d) ==
    IF a \div b # c \div d THEN a \div b < c \div d
    ELSE IF c % d = 0 THEN FALSE
    ELSE IF a % b = 0 THEN TRUE
    ELSE FracLess(d, c % d, b, a % b)

\* abs(r1) < abs(r2): False when either operand is NaN
AbsLess(r1, r2) ==
    ~isnan(r1) /\ ~isnan(r2) /\ FracLess(r1.num, r1.den, r2.num, r2.den)

\* abs(r) < a / b: False when r is NaN
AbsBelow(r, a, b) == ~isnan(r) /\ FracLess(r.num, r.den, a * a, b * b)

\* p < c: False when p is NaN
PBelow(p, c) == p # Null /\ p < c

\* ------------------------------------------------------------- scipy.stats
RECURSIVE SumSeq(_)
SumSeq(s) == IF s = << >> THEN 0 ELSE Head(s) + SumSeq(Tail(s))

Products(x, y) == [i \in 1..Len(x) |-> x[i] * y[i]]

\* The least r^2, in units of 10^-7, whose two-sided p-value for n samples is
\* below 0.04995, below 0.05 and below 0.1 (Student t with n - 2 degrees of
\* freedom; p falls as r^2 grows)
CriticalRSquared ==
    5 :> <<7716246, 7714802, 6486429>> @@ 6 :> <<6585306, 6583722, 5318775>> @@
    7 :> <<5694158, 5692586, 4481492>> @@ 8 :> <<4996241, 4994736, 3862489>> @@
    9 :> <<4442092, 4440672, 3389634>> @@ 10 :> <<3994270, 3992937, 3017930>> @@
    11 :> <<3626119, 3624869, 2718626>> @@ 12 :> <<3318739, 3317565, 2472723>> @@
    13 :> <<3058561, 3057456, 2267246>> @@ 14 :> <<2835676, 2834634, 2093065>> @@
    15 :> <<2642714, 2641729, 1943583>> @@ 16 :> <<2474096, 2473163, 1813926>>

\* The two-sided p-value of r^2 = num / den for n samples, as the cut point
\* below it: 0 for p < 0.04995, 4995 for 0.04995 <= p < 0.05, 5000 for
\* 0.05 <= p < 0.1 and 10000 for p >= 0.1
p_value(n, num, den) ==
    LET above(c) == FracLess(c, 10 ^ 7, num, den)
    IN  IF above(CriticalRSquared[n][1]) THEN 0
        ELSE IF above(CriticalRSquared[n][2]) THEN 4995
        ELSE IF above(CriticalRSquared[n][3]) THEN 5000
        ELSE 10000

\* stats.pearsonr(x, y).  On a constant input it warns and returns (nan, nan);
\* under the warnings filter "error" the warning is raised as an exception.
pearsonr(x, y, warnings) ==
    LET n == Len(x)
        sxx == n * SumSeq(Products(x, x)) - SumSeq(x) * SumSeq(x)
        syy == n * SumSeq(Products(y, y)) - SumSeq(y) * SumSeq(y)
        sxy == n * SumSeq(Products(x, y)) - SumSeq(x) * SumSeq(y)
    IN  IF sxx = 0 \/ syy = 0
        THEN [raised |-> warnings = "error", r |-> NaN, p |-> Null]
        ELSE [raised |-> FALSE,
              r |-> [sgn |-> IF sxy > 0 THEN 1 ELSE IF sxy < 0 THEN 0 - 1 ELSE 0,
                     num |-> sxy * sxy, den |-> sxx * syy],
              p |-> p_value(n, sxy * sxy, sxx * syy)]

\* stats.pointbiserialr(x, y): Pearson's r of the 0/1-coded factor
pointbiserialr(x, y, warnings) == pearsonr(x, y, warnings)

\* ---------------------------------------------------------------- list.sort
Reverse(s) == [i \in 1..Len(s) |-> s[Len(s) + 1 - i]]

\* count_run: the end of the run that starts the list; lt[a, b] is key a < key b
RECURSIVE RunEnd(_, _, _, _)
RunEnd(s, lt, descending, i) ==
    IF i = Len(s) THEN i
    ELSE IF lt[s[i + 1], s[i]] = descending THEN RunEnd(s, lt, descending, i + 1)
    ELSE i

\* binarysort: the place of the pivot among the sorted elements before it
RECURSIVE BinarySearch(_, _, _, _, _)
BinarySearch(s, lt, pivot, l, r) ==
    IF l >= r THEN l
    ELSE LET m == l + ((r - l) \div 2)
         IN  IF lt[pivot, s[m]] THEN BinarySearch(s, lt, pivot, l, m)
             ELSE BinarySearch(s, lt, pivot, m + 1, r)

RECURSIVE binarysort(_, _, _)
binarysort(s, lt, start) ==
    IF start > Len(s) THEN s
    ELSE LET l == BinarySearch(s, lt, s[start], 1, start)
         IN  binarysort(SubSeq(s, 1, l - 1) \o <<s[start]>> \o SubSeq(s, l, start - 1)
                           \o SubSeq(s, start + 1, Len(s)),
                        lt, start + 1)

\* list.sort(key=..., reverse=...) of a list shorter than 64: the order of the
\* indices 1..n after the sort.  The list is reversed, its leading run is
\* found (and reversed when descending), the rest is inserted by binary
\* search, and the list is reversed back.
list_sort(n, lt, reverse) ==
    LET idx == [i \in 1..n |-> i]
        s0 == IF reverse THEN Reverse(idx) ELSE idx
        descending == n >= 2 /\ lt[s0[2], s0[1]]
        run == IF n < 2 THEN n ELSE RunEnd(s0, lt, descending, 2)
        s1 == IF descending
              THEN Reverse(SubSeq(s0, 1, run)) \o SubSeq(s0, run + 1, n)
              ELSE s0
        s2 == binarysort(s1, lt, run + 1)
    IN  IF reverse THEN Reverse(s2) ELSE s2

\* ------------------------------------------------- the correlation analyzer
\* @dataclass CorrelationResult (the interpretation text is left out)
CorrelationResult(factor, r, p, n) ==
    [factor |-> factor, correlation |-> r, p_value |-> p, n_samples |-> n]

\* A test that also passes p = 0.05
is_significant_inclusive(res) == res.p_value # Null /\ res.p_value <= 5000

\* CorrelationResult.is_significant
is_significant(res) == PBelow(res.p_value, 5000)

\* CorrelationResult.strength
strength(res) ==
    IF AbsBelow(res.correlation, 1, 10) THEN "negligible"
    ELSE IF AbsBelow(res.correlation, 3, 10) THEN "weak"
    ELSE IF AbsBelow(res.correlation, 5, 10) THEN "moderate"
    ELSE IF AbsBelow(res.correlation, 7, 10) THEN "strong"
    ELSE "very strong"

continuous_factors ==
    << <<"pressure_hpa", "Barometric Pressure">>,
       <<"pressure_change", "Pressure Change (from yesterday)">>,
       <<"temp_avg_c", "Average Temperature">>,
       <<"humidity_percent", "Humidity">>,
       <<"sleep_score", "Sleep Score">>,
       <<"total_sleep_hours", "Total Sleep Duration">>,
       <<"total_sleep_minutes", "Total Sleep (minutes)">>,
       <<"deep_sleep_hours", "Deep Sleep Duration">>,
       <<"hrv_average", "Heart Rate Variability">>,
       <<"total_activity_minutes", "Exercise Duration">>,
       <<"elevation_gain", "Climbing (elevation)">>,
       <<"total_elevation_m", "Total Elevation">>,
       <<"avg_heart_rate", "Average Exercise HR">>,
       <<"alcohol_units", "Alcohol Consumption">>,
       <<"total_alcohol_units", "Total Alcohol Units">>,
       <<"total_caffeine_mg", "Caffeine (mg)">>,
       <<"stress_level", "Stress Level">>,
       <<"energy_level", "Energy Level">>,
       <<"total_activity_minutes_prev_day", "Previous Day Exercise">>,
       <<"alcohol_units_prev_day", "Previous Day Alcohol">>,
       <<"total_alcohol_units_prev_day", "Previous Day Alcohol">>,
       <<"sleep_score_prev_day", "Previous Night Sleep Score">>,
       <<"pressure_hpa_prev_day", "Previous Day Pressure">>,
       <<"total_caffeine_mg_prev_day", "Previous Day Caffeine">> >>

binary_factors ==
    << <<"is_weekend", "Weekend">>,
       <<"alcohol_consumed", "Any Alcohol">>,
       <<"caffeine_consumed", "Caffeine">>,
       <<"has_incidents", "Had Incident">>,
       <<"cat_in_room", "Cat Slept in Room">>,
       <<"cat_woke_me", "Cat Woke Me Up">> >>

\* A mask that looks at the factor alone
Paired_any_target(rows, col, target) ==
    SelectSeq(rows, LAMBDA row : row[col] # Null)

\* mask = df[col].notna() & df[target].notna(): the rows that pair the two
Paired(rows, col, target) ==
    SelectSeq(rows, LAMBDA row : row[col] # Null /\ row[target] # Null)

Column(rows, col) == [i \in 1..Len(rows) |-> rows[i][col]]

\* Series.nunique()
nunique(x) == Cardinality({x[i] : i \in 1..Len(x)})

\* One pass of either loop of analyze_symptom_correlations over factors[i..]
RECURSIVE factor_loop(_, _, _, _, _, _, _)
factor_loop(rows, target, warnings, factors, binary, i, acc) ==
    IF i > Len(factors) THEN acc
    ELSE IF factors[i][1] \notin Columns(rows)
    THEN factor_loop(rows, target, warnings, factors, binary, i + 1, acc)
    ELSE LET pairs == Paired(rows, factors[i][1], target)
             x == Column(pairs, factors[i][1])
             y == Column(pairs, target)
             stat == IF binary THEN pointbiserialr(x, y, warnings)
                     ELSE pearsonr(x, y, warnings)
         IN  IF Len(x) < MinSamples \/ (binary /\ nunique(x) < 2)
             THEN factor_loop(rows, target, warnings, factors, binary, i + 1, acc)
             ELSE IF stat.raised
             THEN factor_loop(rows, target, warnings, factors, binary, i + 1, acc)
             ELSE factor_loop(rows, target, warnings, factors, binary, i + 1,
                      Append(acc, CorrelationResult(factors[i][2], stat.r, stat.p, Len(x))))

\* results.sort(key=lambda x: abs(x.correlation), reverse=True)
sort_by_abs_correlation(res) ==
    LET lt == [a \in 1..Len(res), b \in 1..Len(res) |->
                  AbsLess(res[a].correlation, res[b].correlation)]
        order == list_sort(Len(res), lt, TRUE)
    IN  [i \in 1..Len(res) |-> res[order[i]]]

\* AnalysisService.analyze_symptom_correlations
analyze_symptom_correlations(ds, fac, docs, handle, c) ==
    LET built == build_dataframe(ds, fac, docs, handle, c)
        continuous == factor_loop(built.df, c.target, c.warnings,
                                  continuous_factors, FALSE, 1, << >>)
        all == factor_loop(built.df, c.target, c.warnings,
                           binary_factors, TRUE, 1, continuous)
    IN  built @@
        [results |-> IF built.outcome = "raised" THEN << >>
                     ELSE IF built.df = << >> \/ c.target \notin Columns(built.df)
                     THEN << >>
                     ELSE sort_by_abs_correlation(all)]

\* -------------------------------------------------------- the lag analyzer
\* Buckets whose "weak" takes abs(r) = 0.3 as well
_get_strength_inclusive(r) ==
    IF AbsBelow(r, 1, 10) THEN "negligible"
    ELSE IF ~isnan(r) /\ ~FracLess(9, 100, r.num, r.den) THEN "weak"
    ELSE IF AbsBelow(r, 5, 10) THEN "moderate"
    ELSE IF AbsBelow(r, 7, 10) THEN "strong"
    ELSE "very strong"

\* AnalysisService._get_strength
_get_strength(r) ==
    IF AbsBelow(r, 1, 10) THEN "negligible"
    ELSE IF AbsBelow(r, 3, 10) THEN "weak"
    ELSE IF AbsBelow(r, 5, 10) THEN "moderate"
    ELSE IF AbsBelow(r, 7, 10) THEN "strong"
    ELSE "very strong"

\* The number of thousandths nearest to abs(r), searched between lo and hi:
\* the largest k with (k - 1/2) / 1000 <= abs(r)
RECURSIVE NearestThousandth(_, _, _)
NearestThousandth(r, lo, hi) ==
    IF lo = hi THEN lo
    ELSE LET k == (lo + hi + 1) \div 2
         IN  IF FracLess(r.num, r.den, (2 * k - 1) * (2 * k - 1), 4 * 10 ^ 6)
             THEN NearestThousandth(r, lo, k - 1)
             ELSE NearestThousandth(r, k, hi)

\* round(r, 3), in thousandths
round3(r) == r.sgn * NearestThousandth(r, 0, 1000)

\* round(p, 4), in units of 10^-5
round4(p) == ((p + 5) \div 10) * 10

lag_factors ==
    << <<"total_activity_minutes", "Exercise Duration">>,
       <<"total_elevation_m", "Elevation Gain">>,
       <<"sleep_score", "Sleep Score">>,
       <<"total_sleep_minutes", "Sleep Duration">>,
       <<"total_caffeine_mg", "Caffeine Intake">>,
       <<"total_alcohol_units", "Alcohol Units">>,
       <<"pressure_hpa", "Barometric Pressure">>,
       <<"overall_wellbeing", "Wellbeing Score">>,
       <<"total_calories", "Calorie Intake">> >>

\* A start that already holds a lag of 10 samples and p = 0
NoBest_found ==
    [best_lag |-> 0, best_r |-> [sgn |-> 0, num |-> 0, den |-> 1],
     best_p |-> 0, best_n |-> MinLagSamples, lag_results |-> << >>]

\* best_lag = 0, best_r = 0, best_p = 1.0, best_n = 0, lag_results = []
NoBest ==
    [best_lag |-> 0, best_r |-> [sgn |-> 0, num |-> 0, den |-> 1],
     best_p |-> 10 ^ 5, best_n |-> 0, lag_results |-> << >>]

\* The rows that pair the factor of lag days before with the target
LagPaired(rows, col, target, lag) ==
    LET shifted == shift(rows, col, lag)
    IN  SelectSeq([i \in 1..Len(rows) |-> [x |-> shifted[i], y |-> rows[i][target]]],
                  LAMBDA q : q.x # Null /\ q.y # Null)

\* for lag in range(max_lag_days + 1): ...
\* the best lag kept when every tested lag with p < 0.1 and a coefficient at
\* least as large replaces it
improves_or_ties(best, stat) ==
    PBelow(stat.p, 10000) /\ ~AbsLess(stat.r, best.best_r)

\* if p < 0.1 and abs(r) > abs(best_r)
improves(best, stat) ==
    PBelow(stat.p, 10000) /\ AbsLess(best.best_r, stat.r)

RECURSIVE lag_loop(_, _, _, _, _, _, _)
lag_loop(rows, col, target, warnings, max_lag_days, lag, best) ==
    IF lag > max_lag_days THEN best
    ELSE LET pairs == LagPaired(rows, col, target, lag)
             stat == pearsonr(Column(pairs, "x"), Column(pairs, "y"), warnings)
             tested == [best EXCEPT !.lag_results =
                          Append(@, [lag |-> lag, r |-> stat.r, p |-> stat.p,
                                     n |-> Len(pairs)])]
         IN  IF Len(pairs) < MinLagSamples \/ stat.raised
             THEN lag_loop(rows, col, target, warnings, max_lag_days, lag + 1, best)
             ELSE IF improves(best, stat)
             THEN lag_loop(rows, col, target, warnings, max_lag_days, lag + 1,
                      [tested EXCEPT !.best_lag = lag, !.best_r = stat.r,
                                     !.best_p = stat.p, !.best_n = Len(pairs)])
             ELSE lag_loop(rows, col, target, warnings, max_lag_days, lag + 1, tested)

\* for col, name in factors: ...
RECURSIVE lag_factor_loop(_, _, _, _, _, _)
lag_factor_loop(rows, target, warnings, max_lag_days, i, acc) ==
    IF i > Len(lag_factors) THEN acc
    ELSE IF lag_factors[i][1] \notin Columns(rows)
    THEN lag_factor_loop(rows, target, warnings, max_lag_days, i + 1, acc)
    ELSE LET b == lag_loop(rows, lag_factors[i][1], target, warnings,
                           max_lag_days, 0, NoBest)
         IN  IF b.best_n >= MinLagSamples /\ PBelow(b.best_p, 10000)
             THEN lag_factor_loop(rows, target, warnings, max_lag_days, i + 1,
                      Append(acc,
                          [factor |-> lag_factors[i][2],
                           optimal_lag |-> b.best_lag,
                           correlation |-> round3(b.best_r),
                           p_value |-> round4(b.best_p),
                           n_samples |-> b.best_n,
                           is_significant |-> PBelow(b.best_p, 5000),
                           strength |-> _get_strength(b.best_r),
                           all_lags |-> b.lag_results]))
             ELSE lag_factor_loop(rows, target, warnings, max_lag_days, i + 1, acc)

Abs(n) == IF n < 0 THEN 0 - n ELSE n

\* the results sorted by |correlation| alone
sort_by_abs_only(res) ==
    LET lt == [a \in 1..Len(res), b \in 1..Len(res) |->
                  Abs(res[a].correlation) > Abs(res[b].correlation)]
        order == list_sort(Len(res), lt, FALSE)
    IN  [i \in 1..Len(res) |-> res[order[i]]]

\* results.sort(key=lambda x: (-int(x['is_significant']), -abs(x['correlation'])))
sort_by_significance(res) ==
    LET lt == [a \in 1..Len(res), b \in 1..Len(res) |->
                  \/ res[a].is_significant /\ ~res[b].is_significant
                  \/ /\ res[a].is_significant = res[b].is_significant
                     /\ Abs(res[a].correlation) > Abs(res[b].correlation)]
        order == list_sort(Len(res), lt, FALSE)
    IN  [i \in 1..Len(res) |-> res[order[i]]]

\* AnalysisService.analyze_lag_correlations
analyze_lag_correlations(ds, fac, docs, handle, c) ==
    LET built == build_dataframe(ds, fac, docs, handle, c)
    IN  built @@
        [results |-> IF built.outcome = "raised" THEN << >>
                     ELSE IF built.df = << >> \/ c.target \notin Columns(built.df)
                     THEN << >>
                     ELSE sort_by_significance(
                              lag_factor_loop(built.df, c.target, c.warnings,
                                              c.max_lag_days, 1, << >>))]

\* ------------------------------------------------------ the analysis system
\* The stores hold a sample diary of MaxDays days, saved and synced
InitAnalysis ==
    /\ \E k \in Profiles :
          /\ daily_summary = SyncedSummary(k, MaxDays)
          /\ symptoms = SyncedSymptoms(k, MaxDays)
          /\ diary = SavedDiary(k, MaxDays)
    /\ daily_factors = sync_quick_log(MaxDays)
    /\ medications = << >>
    /\ storage_db = "none"
    /\ call = NoCall
    /\ outcome = "none"
    /\ df = << >>
    /\ repeated = FALSE
    /\ results = << >>

\* The analysis calls made: the target, the last date of the range, the
\* service's use_db flag and the warnings filter of the process
AnalysisCalls(op, targets, lags) ==
    { [op |-> op, target |-> t, start |-> 1, end |-> e,
       min_days |-> DefaultMinDays, use_db |-> u, sqlite_fails |-> FALSE,
       json_fails |-> FALSE, max_lag_days |-> l, warnings |-> w] :
        t \in targets, e \in {MaxDays - 4, MaxDays}, u \in BOOLEAN,
        l \in lags, w \in {"default", "error"} }

\* service.analyze_symptom_correlations(target, start_date, end_date)
AnalyzeSymptomCorrelations(c) ==
    /\ Idle
    /\ \E r \in {analyze_symptom_correlations(daily_summary, daily_factors, diary,
                                                storage_db, c)} :
          /\ call' = c
          /\ outcome' = r.outcome
          /\ df' = r.df
          /\ storage_db' = r.handle
          /\ results' = r.results
    /\ ReadStores(c.use_db)
    /\ UNCHANGED repeated

\* service.analyze_lag_correlations(target, start_date, end_date, max_lag_days)
AnalyzeLagCorrelations(c) ==
    /\ Idle
    /\ \E r \in {analyze_lag_correlations(daily_summary, daily_factors, diary,
                                            storage_db, c)} :
          /\ call' = c
          /\ outcome' = r.outcome
          /\ df' = r.df
          /\ storage_db' = r.handle
          /\ results' = r.results
    /\ ReadStores(c.use_db)
    /\ UNCHANGED repeated

NextAnalysis ==
    \/ \E c \in AnalysisCalls("analyze_symptom_correlations",
                              {"worst_symptom_severity", "has_headache"}, {0}) :
          AnalyzeSymptomCorrelations(c)
    \/ \E c \in AnalysisCalls("analyze_lag_correlations", {"has_headache"}, 0..MaxLag) :
          AnalyzeLagCorrelations(c)
    \/ Discard

AnalysisSpec == InitAnalysis /\ [][NextAnalysis]_vars

\* ------------------------------------------------------ the strength buckets
StrengthGrid == 100       \* r is drawn from the multiples of 1 / StrengthGrid

\* The coefficients -1 .. 1 in steps of 1 / StrengthGrid, and NaN
Coefficients ==
    {NaN} \cup
    { [sgn |-> IF k > 0 THEN 1 ELSE IF k < 0 THEN 0 - 1 ELSE 0,
       num |-> k * k, den |-> StrengthGrid * StrengthGrid] :
         k \in (0 - StrengthGrid)..StrengthGrid }

\* result.strength, of a CorrelationResult whose correlation is r
Strength(r) ==
    /\ Idle
    /\ call' = [op |-> "strength", r |-> r]
    /\ outcome' = "returned"
    /\ results' = <<strength(CorrelationResult("", r, Null, 0))>>
    /\ UNCHANGED <<stores, storage_db, df, repeated>>

\* service._get_strength(r)
GetStrength(r) ==
    /\ Idle
    /\ call' = [op |-> "_get_strength", r |-> r]
    /\ outcome' = "returned"
    /\ results' = <<_get_strength(r)>>
    /\ UNCHANGED <<stores, storage_db, df, repeated>>

NextStrength ==
    \/ \E r \in Coefficients : Strength(r)
    \/ \E r \in Coefficients : GetStrength(r)
    \/ Discard

StrengthSpec == Init /\ [][NextStrength]_vars

\* ------------------------------------- claims about the correlation analyzer
CorrelationsReturned ==
    call.op = "analyze_symptom_correlations" /\ outcome = "returned"

\* The factors the analyzer evaluates, in the order it evaluates them
EvaluatedFactors == continuous_factors \o binary_factors
IsBinary(i) == i > Len(continuous_factors)

\* The factors whose column the table has
Present == {i \in 1..Len(EvaluatedFactors) : EvaluatedFactors[i][1] \in Columns(df)}

\* The rows of the table in which factor i and the target are both non-null
PairedRows(i) ==
    {j \in 1..Len(df) : /\ df[j][EvaluatedFactors[i][1]] # Null
                        /\ df[j][call.target] # Null}
FactorValues(i) == {df[j][EvaluatedFactors[i][1]] : j \in PairedRows(i)}
TargetValues(i) == {df[j][call.target] : j \in PairedRows(i)}

\* The place of a result's factor in the order of evaluation
EvalIndex(res) ==
    CHOOSE i \in Present : EvaluatedFactors[i][2] = res.factor
ResultsOf(i) ==
    {j \in 1..Len(results) : results[j].factor = EvaluatedFactors[i][2]}

\* C5: every result of analyze_symptom_correlations has n_samples equal to the
\* number of rows in which its factor and the target are both non-null, and
\* that number is at least 5; a binary factor has a result only if it takes at
\* least two distinct values over those rows; a factor with fewer than 5
\* paired rows has no result.
C5_SamplesArePairedRows ==
    CorrelationsReturned =>
        /\ \A j \in 1..Len(results) :
              /\ \E i \in Present : EvaluatedFactors[i][2] = results[j].factor
              /\ results[j].n_samples = Cardinality(PairedRows(EvalIndex(results[j])))
              /\ results[j].n_samples >= 5
              /\ IsBinary(EvalIndex(results[j]))
                    => Cardinality(FactorValues(EvalIndex(results[j]))) >= 2
        /\ \A i \in Present : Cardinality(PairedRows(i)) < 5 => ResultsOf(i) = {}

\* a list with a binary factor and with a continuous factor that has rows
\* without data, returned from a table in which another factor has fewer than
\* 5 paired rows
C5_Witness ==
    /\ CorrelationsReturned
    /\ \E j \in 1..Len(results) : IsBinary(EvalIndex(results[j]))
    /\ \E j \in 1..Len(results) :
          ~IsBinary(EvalIndex(results[j])) /\ results[j].n_samples < Len(df) - 1
    /\ \E i \in Present : Cardinality(PairedRows(i)) \in 1..4

AbsEqual(r1, r2) ==
    ~isnan(r1) /\ ~isnan(r2) /\ ~AbsLess(r1, r2) /\ ~AbsLess(r2, r1)

\* C6: the list analyze_symptom_correlations returns is in non-increasing
\* order of |correlation|, and results of equal |correlation| keep the order
\* in which their factors were evaluated.
C6_SortedByAbsCorrelation ==
    CorrelationsReturned =>
        \A i, j \in 1..Len(results) :
            i < j =>
                /\ ~AbsLess(results[i].correlation, results[j].correlation)
                /\ AbsEqual(results[i].correlation, results[j].correlation)
                      => EvalIndex(results[i]) < EvalIndex(results[j])

\* Factor i is analysed: its column is there, with 5 paired rows or more and,
\* for a binary factor, two distinct values
Eligible(i) ==
    /\ i \in Present
    /\ Cardinality(PairedRows(i)) >= 5
    /\ IsBinary(i) => Cardinality(FactorValues(i)) >= 2

\* The coefficient of factor i is undefined: a constant factor or target
Undefined(i) ==
    Cardinality(FactorValues(i)) < 2 \/ Cardinality(TargetValues(i)) < 2

\* C7: in analyze_symptom_correlations a factor whose coefficient is undefined
\* (its values or the target's constant over the paired rows) is left out of
\* the list, every other eligible factor is in it, and the call does not raise.
C7_UndefinedCoefficientOmitted ==
    call.op = "analyze_symptom_correlations" =>
        /\ outcome = "returned"
        /\ (df # << >> /\ call.target \in Columns(df)) =>
              \A i \in 1..Len(EvaluatedFactors) :
                  Eligible(i) => (Undefined(i) <=> ResultsOf(i) = {})

\* ------------------------------------------- claims about the lag analyzer
LagsReturned == call.op = "analyze_lag_correlations" /\ outcome = "returned"

\* The entry of a lag result's all_lags list for its optimal lag
AtOptimalLag(res) ==
    {res.all_lags[k] : k \in {m \in 1..Len(res.all_lags) :
                                 res.all_lags[m].lag = res.optimal_lag}}

\* The statement of C8 as given: is_significant is true exactly when the
\* p_value the result carries is below 0.05.
C8_SignificantIffCarriedPValue ==
    /\ CorrelationsReturned =>
          \A j \in 1..Len(results) :
              is_significant(results[j])
                 <=> (results[j].p_value # Null /\ results[j].p_value < 5000)
    /\ LagsReturned =>
          \A j \in 1..Len(results) :
              results[j].is_significant <=> results[j].p_value < 5000

\* C8: a result of analyze_symptom_correlations is significant exactly when
\* its p_value is below 0.05.  A result of analyze_lag_correlations is
\* significant exactly when the p-value computed at its optimal lag is below
\* 0.05; the p_value it carries is that p-value rounded to 4 decimals, so a
\* carried p_value below 0.05 implies is_significant and is_significant implies
\* a carried p_value of at most 0.05.
C8_SignificantIffUnderlyingPValue ==
    /\ CorrelationsReturned =>
          \A j \in 1..Len(results) :
              is_significant(results[j])
                 <=> (results[j].p_value # Null /\ results[j].p_value < 5000)
    /\ LagsReturned =>
          \A j \in 1..Len(results) :
              /\ Cardinality(AtOptimalLag(results[j])) = 1
              /\ \A at \in AtOptimalLag(results[j]) :
                    results[j].is_significant <=> (at.p # Null /\ at.p < 5000)
              /\ results[j].p_value < 5000 => results[j].is_significant
              /\ results[j].is_significant => results[j].p_value <= 5000

\* a lag result that is significant and carries the p_value 0.05
C8_Witness ==
    /\ LagsReturned
    /\ \E j \in 1..Len(results) :
          results[j].is_significant /\ results[j].p_value = 5000

\* The bucket of the claim's table, for r^2 = num / den
BucketOf(r) ==
    IF 100 * r.num < r.den THEN "negligible"
    ELSE IF 100 * r.num < 9 * r.den THEN "weak"
    ELSE IF 4 * r.num < r.den THEN "moderate"
    ELSE IF 100 * r.num < 49 * r.den THEN "strong"
    ELSE "very strong"

\* C9: the strength bucket is negligible for |r| < 0.1, weak for |r| < 0.3,
\* moderate for |r| < 0.5, strong for |r| < 0.7 and very strong from 0.7 on,
\* and CorrelationResult.strength and _get_strength give the same bucket for
\* every r.
C9_StrengthBuckets ==
    (call.op \in {"strength", "_get_strength"}) =>
        /\ ~isnan(call.r) => results[1] = BucketOf(call.r)
        /\ strength(CorrelationResult("", call.r, Null, 0)) = _get_strength(call.r)

\* _get_strength was applied to a threshold: |r| = 0.3 is moderate
C9_Witness ==
    /\ call.op = "_get_strength"
    /\ 100 * call.r.num = 9 * call.r.den /\ call.r.den > 0
    /\ results[1] = "moderate"

\* The lag factors whose column the table has
LagPresent == {i \in 1..Len(lag_factors) : lag_factors[i][1] \in Columns(df)}

\* The rows that pair factor i of lag days before with the target
LagRows(i, lag) ==
    {j \in (lag + 1)..Len(df) : /\ df[j - lag][lag_factors[i][1]] # Null
                                /\ df[j][call.target] # Null}

\* Factor i has at least 10 paired rows at the lag and a p-value below 0.1
Qualifies(i, lag) ==
    /\ Cardinality(LagRows(i, lag)) >= 10
    /\ LET pairs == LagPaired(df, lag_factors[i][1], call.target, lag)
           stat == pearsonr(Column(pairs, "x"), Column(pairs, "y"), "default")
       IN  stat.p # Null /\ stat.p < 10000

LagResultsOf(i) ==
    {j \in 1..Len(results) : results[j].factor = lag_factors[i][2]}

\* C10: every result of analyze_lag_correlations has optimal_lag in
\* 0..max_lag_days, n_samples >= 10 equal to the rows paired at that lag, and
\* a p-value below 0.1 at that lag; a factor for which no lag in the range has
\* 10 paired rows and p < 0.1 has no result.
C10_LagResultQualifies ==
    LagsReturned =>
        /\ \A i \in 1..Len(lag_factors) : \A j \in LagResultsOf(i) :
              /\ i \in LagPresent
              /\ results[j].optimal_lag \in 0..call.max_lag_days
              /\ results[j].n_samples >= 10
              /\ results[j].n_samples = Cardinality(LagRows(i, results[j].optimal_lag))
              /\ Qualifies(i, results[j].optimal_lag)
        /\ \A j \in 1..Len(results) :
              \E i \in 1..Len(lag_factors) : j \in LagResultsOf(i)
        /\ \A i \in LagPresent :
              (\A lag \in 0..call.max_lag_days : ~Qualifies(i, lag))
                  => LagResultsOf(i) = {}

\* a result whose optimal lag is a day or more back, beside a factor that has
\* 10 paired rows at some lag and no result
C10_Witness ==
    /\ LagsReturned
    /\ \E j \in 1..Len(results) : results[j].optimal_lag >= 1
    /\ \E i \in LagPresent :
          /\ LagResultsOf(i) = {}
          /\ \E lag \in 0..call.max_lag_days : Cardinality(LagRows(i, lag)) >= 10

\* The coefficient and p-value of factor i at the lag, from the table
LagStat(i, lag) ==
    LET pairs == LagPaired(df, lag_factors[i][1], call.target, lag)
    IN  pearsonr(Column(pairs, "x"), Column(pairs, "y"), "default")

\* The lags of factor i that were tested and have p < 0.1
QualifyingLags(i) == {lag \in 0..call.max_lag_days : Qualifies(i, lag)}

\* The result reports the lag of largest |r| among the qualifying lags, the
\* smallest one when several share it, and the number of rows paired there
ReportsBestLag(i, res) ==
    /\ res.optimal_lag \in QualifyingLags(i)
    /\ \A lag \in QualifyingLags(i) :
          /\ ~AbsLess(LagStat(i, res.optimal_lag).r, LagStat(i, lag).r)
          /\ lag < res.optimal_lag
                => AbsLess(LagStat(i, lag).r, LagStat(i, res.optimal_lag).r)
    /\ res.n_samples = Cardinality(LagRows(i, res.optimal_lag))

\* k thousandths is exactly the coefficient r
ExactThousandths(k, r) ==
    /\ ~FracLess(r.num, r.den, k * k, 10 ^ 6)
    /\ ~FracLess(k * k, 10 ^ 6, r.num, r.den)
    /\ (k > 0 <=> r.sgn > 0) /\ (k < 0 <=> r.sgn < 0)

\* k thousandths is within half a thousandth of the coefficient r
NearestThousandths(k, r) ==
    /\ ~FracLess(r.num, r.den, (2 * Abs(k) - 1) * (2 * Abs(k) - 1), 4 * 10 ^ 6)
          \/ k = 0
    /\ ~FracLess((2 * Abs(k) + 1) * (2 * Abs(k) + 1), 4 * 10 ^ 6, r.num, r.den)
    /\ (k > 0 => r.sgn > 0) /\ (k < 0 => r.sgn < 0)

\* The statement of C11 as given: the optimal lag has the largest |r| among
\* the tested lags with p < 0.1, the smallest such lag on a tie, and the
\* reported correlation, p_value and n_samples are the values computed there.
C11_ReportsValuesAtBestLag ==
    LagsReturned =>
        \A i \in 1..Len(lag_factors) : \A j \in LagResultsOf(i) :
            /\ ReportsBestLag(i, results[j])
            /\ ExactThousandths(results[j].correlation,
                                LagStat(i, results[j].optimal_lag).r)
            /\ results[j].p_value = LagStat(i, results[j].optimal_lag).p

\* C11: for each factor analyze_lag_correlations emits, optimal_lag is the
\* lag of largest |r| among the tested lags with p < 0.1, the smallest such
\* lag on a tie; n_samples is the number of rows paired at that lag; the
\* reported correlation is the coefficient at that lag rounded to 3 decimals
\* and the reported p_value its p-value rounded to 4 decimals.
C11_ReportsRoundedValuesAtBestLag ==
    LagsReturned =>
        \A i \in 1..Len(lag_factors) : \A j \in LagResultsOf(i) :
            /\ ReportsBestLag(i, results[j])
            /\ NearestThousandths(results[j].correlation,
                                  LagStat(i, results[j].optimal_lag).r)
            /\ results[j].p_value % 10 = 0
            /\ Abs(results[j].p_value - LagStat(i, results[j].optimal_lag).p) <= 5

\* a call with a result whose coefficient is not a whole number of
\* thousandths and a result with two lags that share the largest |r|, the
\* smaller of which is reported
C11_Witness ==
    /\ LagsReturned
    /\ \E i \in 1..Len(lag_factors) : \E j \in LagResultsOf(i) :
          ~ExactThousandths(results[j].correlation,
                            LagStat(i, results[j].optimal_lag).r)
    /\ \E i \in 1..Len(lag_factors) : \E j \in LagResultsOf(i) :
          \E lag \in QualifyingLags(i) :
              /\ lag > results[j].optimal_lag
              /\ ~AbsLess(LagStat(i, lag).r, LagStat(i, results[j].optimal_lag).r)

\* C12: the list analyze_lag_correlations returns places every significant
\* result before every non-significant one, and within each of the two
\* groups the results are in non-increasing order of |correlation|.
C12_SignificantFirstThenByAbsCorrelation ==
    LagsReturned =>
        \A a, b \in 1..Len(results) :
            a < b =>
                /\ results[a].is_significant \/ ~results[b].is_significant
                /\ results[a].is_significant = results[b].is_significant
                      => Abs(results[a].correlation) >= Abs(results[b].correlation)

\* a returned list in which a significant result stands before a
\* non-significant one of larger |correlation|
C12_Witness ==
    /\ LagsReturned
    /\ \E a, b \in 1..Len(results) :
          /\ a < b
          /\ results[a].is_significant /\ ~results[b].is_significant
          /\ Abs(results[a].correlation) < Abs(results[b].correlation)

\* ------------------------------------------------------------ pattern detector
\* A symptom occurrence rate is the mean of a 0/1 column, held exactly as the
\* fraction num / den; the float the code computes is the double nearest to it.
MaxWeeks == 5

RECURSIVE GCD(_, _)
GCD(a, b) == IF b = 0 THEN a ELSE GCD(b, a % b)

\* df[...]['has_symptoms'].mean()
mean(rows, col) ==
    [num |-> Cardinality({i \in DOMAIN rows : rows[i][col] = 1}), den |-> Len(rows)]

LowestTerms(q) ==
    IF q.num = 0 THEN <<0, 1>>
    ELSE <<q.num \div GCD(q.num, q.den), q.den \div GCD(q.num, q.den)>>

RateLess(a, b) == a.num * b.den < b.num * a.den

\* The pairs of rates, in lowest terms with denominators up to 24, whose exact
\* difference is 3/20 and whose difference as doubles is above the double 0.15
\* (0.75 - 0.6, 0.4 - 0.25 and 0.9 - 0.75 give 0.15000000000000002)
RoundsAbove15 ==
    { <<3, 4, 3, 5>>, <<2, 5, 1, 4>>, <<9, 10, 3, 4>>,
      <<1, 5, 1, 20>>, <<5, 12, 4, 15>>, <<9, 20, 3, 10>>, <<1, 2, 7, 20>>,
      <<11, 20, 2, 5>>, <<13, 20, 1, 2>>, <<4, 5, 13, 20>>, <<17, 20, 7, 10>>,
      <<1, 1, 17, 20>> }

\* The same for the difference 1/10 and the double 0.1
\* (0.4 - 0.3 gives 0.10000000000000003, 0.8 - 0.7 gives 0.10000000000000009)
RoundsAbove10 ==
    { <<2, 5, 3, 10>>, <<4, 5, 7, 10>> }

\* hi - lo > t for the doubles of the rates hi >= lo and of t = tn / td: the
\* exact comparison, except where the exact difference is t
float_exceeds(hi, lo, tn, td, above) ==
    LET diff == (hi.num * lo.den - lo.num * hi.den) * td
        bound == tn * hi.den * lo.den
    IN  \/ diff > bound
        \/ diff = bound /\ LowestTerms(hi) \o LowestTerms(lo) \in above

\* dow_symptoms.max() - dow_symptoms.min() > 0.15
exceeds_15(hi, lo) == float_exceeds(hi, lo, 3, 20, RoundsAbove15)

\* abs(weekend_rate - weekday_rate) > 0.1
exceeds_10(hi, lo) == float_exceeds(hi, lo, 1, 10, RoundsAbove10)

day_names ==
    <<"Monday", "Tuesday", "Wednesday", "Thursday", "Friday", "Saturday", "Sunday">>

Rows(rows, col, v) == SelectSeq(rows, LAMBDA row : row[col] = v)

\* df.groupby('day_of_week')['has_symptoms'].mean(), idxmax() and idxmin():
\* the first weekday, in weekday order, with the largest and the smallest rate
day_of_week_pattern(rows) ==
    LET days == {rows[i].day_of_week : i \in DOMAIN rows}
        dow_symptoms == [w \in days |-> mean(Rows(rows, "day_of_week", w), "has_symptoms")]
        worst_day == CHOOSE w \in days :
                        /\ \A v \in days : ~RateLess(dow_symptoms[w], dow_symptoms[v])
                        /\ \A v \in days : v < w => RateLess(dow_symptoms[v], dow_symptoms[w])
        best_day == CHOOSE w \in days :
                        /\ \A v \in days : ~RateLess(dow_symptoms[v], dow_symptoms[w])
                        /\ \A v \in days : v < w => RateLess(dow_symptoms[w], dow_symptoms[v])
    IN  IF exceeds_15(dow_symptoms[worst_day], dow_symptoms[best_day])
        THEN << [pattern_type |-> "day_of_week",
                 description |-> "most and least common",
                 frequency |-> dow_symptoms[worst_day],
                 details |-> [worst_day |-> day_names[worst_day + 1],
                              best_day |-> day_names[best_day + 1]]] >>
        ELSE << >>

\* the weekend against weekday comparison; a group without rows has rate 0
weekend_pattern(rows) ==
    LET weekend == Rows(rows, "is_weekend", 1)
        weekdays == Rows(rows, "is_weekend", 0)
        weekend_rate == IF Len(weekend) > 0 THEN mean(weekend, "has_symptoms")
                        ELSE [num |-> 0, den |-> 1]
        weekday_rate == IF Len(weekdays) > 0 THEN mean(weekdays, "has_symptoms")
                        ELSE [num |-> 0, den |-> 1]
        details == [weekend_rate |-> weekend_rate, weekday_rate |-> weekday_rate]
    IN  IF RateLess(weekday_rate, weekend_rate) /\ exceeds_10(weekend_rate, weekday_rate)
        THEN << [pattern_type |-> "weekend",
                 description |-> "more common on weekends",
                 frequency |-> weekend_rate, details |-> details] >>
        ELSE IF ~RateLess(weekday_rate, weekend_rate)
                /\ exceeds_10(weekday_rate, weekend_rate)
        THEN << [pattern_type |-> "weekend",
                 description |-> "less common on weekends",
                 frequency |-> weekday_rate, details |-> details] >>
        ELSE << >>

\* AnalysisService.find_symptom_patterns
find_symptom_patterns(ds, fac, docs, handle, c) ==
    LET built == build_dataframe(ds, fac, docs, handle, c)
        rows == built.df
        by_day == IF /\ "has_symptoms" \in Columns(rows)
                     /\ mean(rows, "has_symptoms").num > 0
                  THEN day_of_week_pattern(rows) ELSE << >>
        by_weekend == IF {"is_weekend", "has_symptoms"} \subseteq Columns(rows)
                      THEN weekend_pattern(rows) ELSE << >>
    IN  built @@ [results |-> IF built.outcome = "raised" \/ rows = << >>
                              THEN << >> ELSE by_day \o by_weekend]

\* ------------------------------------------------- the pattern detector system
\* A sample diary over MaxWeeks weeks: an entry on each of the first rows[w]
\* dates that fall on weekday w, with a symptom on the first sym[w] of them.
\* Monday is recorded every week, Wednesday every week or never, Saturday
\* every week, every week but the last, or never.
Monday == 0
Wednesday == 2
Saturday == 5

PatternProfiles ==
    { k \in [rows : [{Monday, Wednesday, Saturday} -> 0..MaxWeeks],
             sym : [{Monday, Wednesday, Saturday} -> 0..MaxWeeks]] :
        /\ k.rows[Monday] = MaxWeeks
        /\ k.rows[Wednesday] \in {0, MaxWeeks}
        /\ k.rows[Saturday] \in {0, MaxWeeks - 1, MaxWeeks}
        /\ \A w \in DOMAIN k.rows : k.sym[w] <= k.rows[w] }

Recorded(k, d) ==
    /\ weekday(d) \in DOMAIN k.rows
    /\ (d - 1) \div 7 < k.rows[weekday(d)]

PatternEntry(k, d) ==
    [ entry_date |-> d,
      severity |-> IF (d - 1) \div 7 < k.sym[weekday(d)] THEN <<3>> ELSE << >>,
      has_sleep |-> FALSE,
      sleep_score |-> Null,
      total_sleep_minutes |-> Null,
      has_weather |-> FALSE,
      pressure_hpa |-> Null,
      activity_minutes |-> 0,
      elevation_gain |-> 0,
      alcohol_units |-> 0 ]

RECURSIVE PatternDiary(_, _)
PatternDiary(k, n) ==
    IF n = 0 THEN << >>
    ELSE IF Recorded(k, n) THEN save_entry(PatternDiary(k, n - 1), PatternEntry(k, n))
    ELSE PatternDiary(k, n - 1)

RECURSIVE PatternSymptoms(_, _)
PatternSymptoms(k, n) ==
    IF n = 0 THEN << >>
    ELSE IF Recorded(k, n)
    THEN replace_rows(PatternSymptoms(k, n - 1), n, EntrySymptoms(PatternEntry(k, n)))
    ELSE PatternSymptoms(k, n - 1)

RECURSIVE PatternSummary(_, _)
PatternSummary(k, n) ==
    IF n = 0 THEN << >>
    ELSE IF Recorded(k, n) THEN upsert_entry(PatternSummary(k, n - 1), PatternEntry(k, n))
    ELSE PatternSummary(k, n - 1)

InitPatterns ==
    /\ \E k \in PatternProfiles :
          /\ daily_summary = PatternSummary(k, 7 * MaxWeeks)
          /\ symptoms = PatternSymptoms(k, 7 * MaxWeeks)
          /\ diary = PatternDiary(k, 7 * MaxWeeks)
    /\ daily_factors = << >>
    /\ medications = << >>
    /\ storage_db = "none"
    /\ call = NoCall
    /\ outcome = "none"
    /\ df = << >>
    /\ repeated = FALSE
    /\ results = << >>

\* The calls made: all the weeks or the first week only, with or without SQLite
PatternCalls ==
    { [op |-> "find_symptom_patterns", start |-> 1, end |-> e,
       min_days |-> DefaultMinDays, use_db |-> u, sqlite_fails |-> FALSE,
       json_fails |-> FALSE] : e \in {7, 7 * MaxWeeks}, u \in BOOLEAN }

\* service.find_symptom_patterns(start_date, end_date)
FindSymptomPatterns(c) ==
    /\ Idle
    /\ \E r \in {find_symptom_patterns(daily_summary, daily_factors, diary,
                                         storage_db, c)} :
          /\ call' = c
          /\ outcome' = r.outcome
          /\ df' = r.df
          /\ storage_db' = r.handle
          /\ results' = r.results
    /\ ReadStores(c.use_db)
    /\ UNCHANGED repeated

NextPatterns ==
    \/ \E c \in PatternCalls : FindSymptomPatterns(c)
    \/ Discard

PatternSpec == InitPatterns /\ [][NextPatterns]_vars

\* ------------------------------------------------------- pattern detector claims
PatternsReturned ==
    call.op = "find_symptom_patterns" /\ outcome = "returned" /\ df # << >>

\* The rows of the table on which a symptom was logged
SymptomRows ==
    {i \in DOMAIN df :
        IF "has_symptoms" \in DOMAIN df[i] THEN df[i].has_symptoms = 1
        ELSE df[i].symptom_count > 0}

WeekdaysPresent == {df[i].day_of_week : i \in DOMAIN df}
OnWeekday(w) == {i \in DOMAIN df : df[i].day_of_week = w}
Occurrences(group) == Cardinality(group \cap SymptomRows)

\* The symptom occurrence rate of group g is below that of group h
RateBelow(g, h) ==
    Occurrences(g) * Cardinality(h) < Occurrences(h) * Cardinality(g)

\* The rate of group h exceeds that of group g by more than tn / td
RateExceedsBy(h, g, tn, td) ==
    (Occurrences(h) * Cardinality(g) - Occurrences(g) * Cardinality(h)) * td
        > tn * Cardinality(g) * Cardinality(h)

HighestRateDays == {w \in WeekdaysPresent :
                       \A v \in WeekdaysPresent : ~RateBelow(OnWeekday(w), OnWeekday(v))}
LowestRateDays == {w \in WeekdaysPresent :
                      \A v \in WeekdaysPresent : ~RateBelow(OnWeekday(v), OnWeekday(w))}

PatternsOfType(t) == {j \in DOMAIN results : results[j].pattern_type = t}

\* C13: for every non-empty table of the builder, find_symptom_patterns emits
\* a day_of_week pattern if and only if the largest per-weekday symptom rate
\* minus the smallest one is strictly greater than 0.15, and the pattern names
\* a weekday of the largest rate as worst and one of the smallest rate as best.
C13_DayOfWeekPatternIffSpreadAbove15 ==
    PatternsReturned =>
        /\ PatternsOfType("day_of_week") # {}
              <=> \E w \in HighestRateDays : \E v \in LowestRateDays :
                      RateExceedsBy(OnWeekday(w), OnWeekday(v), 3, 20)
        /\ \A j \in PatternsOfType("day_of_week") :
              /\ \E w \in HighestRateDays :
                    results[j].details.worst_day = day_names[w + 1]
              /\ \E v \in LowestRateDays :
                    results[j].details.best_day = day_names[v + 1]

WeekendRows == {i \in DOMAIN df : df[i].is_weekend = 1}
WeekdayRows == {i \in DOMAIN df : df[i].is_weekend = 0}

\* The rate num / den is the symptom occurrence rate of the group
IsRateOf(q, group) == q.num * Cardinality(group) = Occurrences(group) * q.den

\* C14: for every non-empty table of the builder, find_symptom_patterns emits
\* a weekend pattern if and only if the weekend and the weekday symptom rates
\* differ by strictly more than 0.10; the pattern says more common on weekends
\* when the weekend rate is the larger and less common otherwise, and its
\* frequency is the larger rate.  With at least 5 weekend rows at rate 0 and
\* at least 10 weekday rows at rate 0.3 the weekday-elevated pattern is emitted.
C14_WeekendPatternIffRatesDifferAbove10 ==
    PatternsReturned =>
        /\ PatternsOfType("weekend") # {}
              <=> \/ RateExceedsBy(WeekendRows, WeekdayRows, 1, 10)
                  \/ RateExceedsBy(WeekdayRows, WeekendRows, 1, 10)
        /\ \A j \in PatternsOfType("weekend") :
              IF RateBelow(WeekdayRows, WeekendRows)
              THEN /\ results[j].description = "more common on weekends"
                   /\ IsRateOf(results[j].frequency, WeekendRows)
              ELSE /\ results[j].description = "less common on weekends"
                   /\ IsRateOf(results[j].frequency, WeekdayRows)
        /\ ( /\ Cardinality(WeekendRows) >= 5 /\ Occurrences(WeekendRows) = 0
             /\ Cardinality(WeekdayRows) >= 10
             /\ IsRateOf([num |-> 3, den |-> 10], WeekdayRows) )
              => \E j \in PatternsOfType("weekend") :
                    results[j].description = "less common on weekends"

\* -------------------------------------------- medication effectiveness analyzer
\* Times of day are whole hours; their ISO text sorts as the hours do.
MedDays == 6

\* str.lower() and str.title() on the names that occur
LowerCase ==
    ("Ibuprofen" :> "ibuprofen") @@ ("IBUPROFEN" :> "ibuprofen")
    @@ ("Sumatriptan" :> "sumatriptan") @@ ("SUMATRIPTAN" :> "sumatriptan")
    @@ ("Aspirin" :> "aspirin")
lower(name) == IF name \in DOMAIN LowerCase THEN LowerCase[name] ELSE name

TitleCase ==
    ("ibuprofen" :> "Ibuprofen") @@ ("sumatriptan" :> "Sumatriptan")
    @@ ("aspirin" :> "Aspirin")
title(name) == IF name \in DOMAIN TitleCase THEN TitleCase[name] ELSE name

\* ORDER BY col within one date: ascending, NULL first, rows of equal key in
\* the order they were inserted
RECURSIVE InsertByTime(_, _, _)
InsertByTime(r, s, col) ==
    IF s = << >> THEN <<r>>
    ELSE IF s[Len(s)][col] <= r[col] THEN Append(s, r)
    ELSE Append(InsertByTime(r, SubSeq(s, 1, Len(s) - 1), col), s[Len(s)])

RECURSIVE OrderByTime(_, _)
OrderByTime(rows, col) ==
    IF rows = << >> THEN << >>
    ELSE InsertByTime(rows[Len(rows)], OrderByTime(SubSeq(rows, 1, Len(rows) - 1), col), col)

\* SELECT ... FROM t WHERE entry_date >= ? AND entry_date <= ? ORDER BY entry_date, col
RECURSIVE read_sql(_, _, _, _)
read_sql(t, start, end, col) ==
    IF start > end THEN << >>
    ELSE (IF start \in DOMAIN t THEN OrderByTime(t[start], col) ELSE << >>)
         \o read_sql(t, start + 1, end, col)

\* every value, repeated ones included
every_value(s) == s

\* Series.unique(): the values in order of first appearance
RECURSIVE unique(_)
unique(s) ==
    IF s = << >> THEN << >>
    ELSE LET front == unique(SubSeq(s, 1, Len(s) - 1))
         IN  IF \E i \in DOMAIN front : front[i] = s[Len(s)] THEN front
             ELSE Append(front, s[Len(s)])

headache_types == {"headache", "headache_neuralgiaform", "neuralgiaform_headache"}

\* Series.mean() of the severities, exactly; the mean None, taken when there
\* are no rows, is the fraction with denominator 0
None == [num |-> 0, den |-> 0]

mean_severity(rows) ==
    IF rows = << >> THEN None
    ELSE [num |-> SumSeq(Column(rows, "severity")), den |-> Len(rows)]

\* DataFrame.sort_values('onset_time'): ascending, rows without onset time
\* last, rows of equal onset time in the order they had
sort_values(rows) ==
    OrderByTime(SelectSeq(rows, LAMBDA r : r.onset_time # Null), "onset_time")
    \o SelectSeq(rows, LAMBDA r : r.onset_time = Null)

\* round(x, 1) of the mean num / den, in tenths: to the nearest tenth, a tie
\* to the even one (a tie is exact in binary for fewer than 20 rows)
round1(q) ==
    LET scaled == 10 * q.num
        floor == scaled \div q.den
        twice == 2 * (scaled % q.den)
    IN  IF twice < q.den THEN floor
        ELSE IF twice > q.den THEN floor + 1
        ELSE IF floor % 2 = 0 THEN floor ELSE floor + 1

\* the label with the thresholds one lower
data_quality_from_2(times_taken) ==
    IF times_taken >= 4 THEN "good"
    ELSE IF times_taken >= 2 THEN "limited" ELSE "insufficient"

\* 'good' if times_taken >= 5 else 'limited' if times_taken >= 3 else 'insufficient'
data_quality(times_taken) ==
    IF times_taken >= 5 THEN "good"
    ELSE IF times_taken >= 3 THEN "limited" ELSE "insufficient"

\* the comparison note with a missing baseline taken as severity 0
severity_notes_without_baseline(med_name, times_taken, avg_med, avg_other) ==
    IF times_taken >= 3 /\ avg_med # None
    THEN IF avg_other # None /\ RateLess(avg_med, avg_other)
         THEN << [note |-> "lower severity", medication |-> title(med_name),
                  med_days |-> avg_med, baseline |-> avg_other] >>
         ELSE IF avg_other = None \/ RateLess(avg_other, avg_med)
         THEN << [note |-> "taken for more severe headaches",
                  med_days |-> avg_med, baseline |-> avg_other] >>
         ELSE << >>
    ELSE << >>

\* the comparison note: only with times_taken >= 3 and both means present
severity_notes(med_name, times_taken, avg_med, avg_other) ==
    IF times_taken >= 3 /\ avg_med # None /\ avg_other # None
    THEN IF RateLess(avg_med, avg_other)
         THEN << [note |-> "lower severity", medication |-> title(med_name),
                  med_days |-> avg_med, baseline |-> avg_other] >>
         ELSE IF RateLess(avg_other, avg_med)
         THEN << [note |-> "taken for more severe headaches",
                  med_days |-> avg_med, baseline |-> avg_other] >>
         ELSE << >>
    ELSE << >>

\* the severities of the headaches of one day, in the order of onset
day_severities(on_med_days, med_date) ==
    Column(sort_values(SelectSeq(on_med_days, LAMBDA r : r.entry_date = med_date)),
           "severity")

\* relief counted when the last severity is not above the first
is_relief_or_equal(sev) == Len(sev) >= 2 /\ sev[Len(sev)] <= sev[1]

\* if len(severities) >= 2 and severities[-1] < severities[0]
is_relief(sev) == Len(sev) >= 2 /\ sev[Len(sev)] < sev[1]

relief_cases(on_med_days, med_dates) ==
    Cardinality({d \in med_dates : is_relief(day_severities(on_med_days, d))})

no_relief_cases(on_med_days, med_dates) ==
    Cardinality({d \in med_dates :
                    LET sev == day_severities(on_med_days, d)
                    IN  Len(sev) >= 2 /\ ~is_relief(sev)})

relief_notes(relief, no_relief) ==
    IF relief + no_relief > 0
    THEN << [note |-> "same-day relief", relief_cases |-> relief,
             tracked_cases |-> relief + no_relief] >>
    ELSE << >>

\* the body of the loop over the medications: the result of one medication
medication_result(meds_df, symptoms_df, med_name) ==
    LET med_rows == SelectSeq(meds_df, LAMBDA r : lower(r.name) = med_name)
        med_dates == {med_rows[i].entry_date : i \in DOMAIN med_rows}
        times_taken == Len(med_rows)
        dosages == SelectSeq(Column(med_rows, "dosage"), LAMBDA x : x # Null)
        headaches == SelectSeq(symptoms_df,
                               LAMBDA r : lower(r.symptom_type) \in headache_types)
        on_med_days == SelectSeq(headaches, LAMBDA r : r.entry_date \in med_dates)
        on_other_days == SelectSeq(headaches, LAMBDA r : r.entry_date \notin med_dates)
        avg_med == mean_severity(on_med_days)
        avg_other == mean_severity(on_other_days)
        headache_dates == {headaches[i].entry_date : i \in DOMAIN headaches}
    IN  [ medication |-> title(med_name),
          dosage |-> IF dosages = << >> THEN Null ELSE dosages[1],
          times_taken |-> times_taken,
          days_taken |-> Cardinality(med_dates),
          days_with_headache |-> Cardinality(med_dates \cap headache_dates),
          avg_severity_med_days |->
              IF avg_med = None \/ avg_med.num = 0 THEN Null ELSE round1(avg_med),
          avg_severity_baseline |->
              IF avg_other = None \/ avg_other.num = 0 THEN Null ELSE round1(avg_other),
          effectiveness_notes |->
              severity_notes(med_name, times_taken, avg_med, avg_other)
              \o relief_notes(relief_cases(on_med_days, med_dates),
                              no_relief_cases(on_med_days, med_dates)),
          data_quality |-> data_quality(times_taken) ]

\* results.sort(key=lambda x: x['times_taken'], reverse=True)
sort_by_times_taken(res) ==
    LET lt == [a \in 1..Len(res), b \in 1..Len(res) |->
                  res[a].times_taken < res[b].times_taken]
        order == list_sort(Len(res), lt, TRUE)
    IN  [i \in 1..Len(res) |-> res[order[i]]]

\* for med_name in meds_df['name'].str.lower().unique(): ... ; the sort follows
\* the loop inside the try block, so an exception raised for one medication
\* leaves the loop and the sort, and the except clause returns what was
\* appended so far
RECURSIVE medication_loop(_, _, _, _, _, _)
medication_loop(meds_df, symptoms_df, names, raises_for, i, acc) ==
    IF i > Len(names) THEN sort_by_times_taken(acc)
    ELSE IF names[i] = raises_for THEN acc
    ELSE medication_loop(meds_df, symptoms_df, names, raises_for, i + 1,
             Append(acc, medication_result(meds_df, symptoms_df, names[i])))

\* AnalysisService.analyze_medication_effectiveness
analyze_medication_effectiveness(syms, meds, c) ==
    LET meds_df == read_sql(meds, c.start, c.end, "time_taken")
        symptoms_df == read_sql(syms, c.start, c.end, "onset_time")
        names == unique([i \in DOMAIN meds_df |-> lower(meds_df[i].name)])
    IN  IF c.sqlite_fails \/ meds_df = << >> THEN << >>
        ELSE medication_loop(meds_df, symptoms_df, names, c.raises_for, 1, << >>)

\* ------------------------------------------- the medication analyzer system
\* The number of doses of a medication on each day of a sample diary
DoseSeries ==
    << <<0, 0, 0, 0, 0, 0>>,
       <<1, 0, 1, 0, 1, 0>>,
       <<2, 0, 1, 0, 0, 0>>,
       <<1, 1, 1, 1, 1, 0>>,
       <<2, 0, 2, 0, 0, 0>>,
       <<0, 0, 0, 1, 0, 1>> >>

\* The symptoms logged on each day of a sample diary: <<type, severity, onset>>
Headache == "headache"
Neuralgiaform == "neuralgiaform_headache"

SymptomSeries ==
    << << << >>, << >>, << >>, << >>, << >>, << >> >>,
       << << <<Headache, 8, 9>> >>, << >>, << <<Headache, 7, Null>> >>, << >>,
          << <<Headache, 8, 10>> >>, << >> >>,
       << << <<Headache, 8, 9>> >>, << <<Headache, 3, 9>>, <<"fatigue", 9, 11>> >>,
          << <<Neuralgiaform, 8, 7>> >>, << <<Headache, 3, Null>> >>,
          << <<Headache, 8, 10>> >>, << <<Headache, 3, 12>> >> >>,
       << << <<Headache, 7, 9>>, <<Headache, 4, 15>> >>,
          << <<Headache, 3, 10>>, <<Headache, 6, 18>> >>,
          << <<Headache, 5, 8>>, <<Neuralgiaform, 5, 12>> >>,
          << <<Headache, 2, 20>>, <<Headache, 6, 7>> >>,
          << <<Headache, 6, 8>>, <<Headache, 9, Null>>, <<Headache, 3, 14>> >>,
          << <<Headache, 5, 9>> >> >>,
       << << <<Headache, 7, 9>>, <<"nausea", 1, 15>> >>,
          << >>,
          << <<Neuralgiaform, 6, 8>>, <<"fatigue", 9, 10>>, <<Neuralgiaform, 2, 12>> >>,
          << <<Headache, 4, Null>>, <<Headache, 4, Null>> >>,
          << <<Headache, 1, 6>>, <<Headache, 5, 7>> >>,
          << >> >>,
       << << <<Headache, 2, 9>> >>, << <<Headache, 6, 9>> >>, << <<Headache, 2, 9>> >>,
          << <<Headache, 6, 9>> >>, << <<Headache, 2, 9>> >>, << <<Headache, 6, 9>> >> >>,
       << << <<Headache, 0, 9>> >>, << <<Headache, 3, 9>> >>, << <<Headache, 0, 10>> >>,
          << >>, << <<Headache, 0, 8>>, <<Headache, 0, 12>> >>, << >> >> >>

\* The medications of the sample diaries and the spellings they are logged in
MedNames == <<"ibuprofen", "sumatriptan", "aspirin">>

Spellings ==
    << <<"Ibuprofen", "ibuprofen", "IBUPROFEN">>,
       <<"Sumatriptan", "SUMATRIPTAN">>,
       <<"Aspirin">> >>

\* A sample diary picks a dose series for each medication and a symptom series
MedProfiles ==
    [doses : [DOMAIN MedNames -> DOMAIN DoseSeries], symptoms : DOMAIN SymptomSeries]

At(series, d) == series[((d - 1) % Len(series)) + 1]

\* The k-th dose of medication m on day d: the spelling, the dosage (its
\* number of milligrams standing for the text) and the hour vary with the day, and the first medication is logged without a time
\* on every fifth day
Dose(m, d, k) ==
    [ name |-> Spellings[m][((d + k) % Len(Spellings[m])) + 1],
      dosage |-> IF (d + k) % 3 = 0 THEN Null
                 ELSE IF d > 3 THEN 400 ELSE 200,
      time_taken |-> IF m = 1 /\ d % 5 = 0 THEN Null
                     ELSE 6 + 2 * ((m + d) % 3) + 8 * (k - 1) ]

RECURSIVE Doses(_, _, _)
Doses(k, d, m) ==
    IF m = 0 THEN << >>
    ELSE Doses(k, d, m - 1)
         \o [i \in 1..At(DoseSeries[k.doses[m]], d) |-> Dose(m, d, i)]

MedEntry(k, d) ==
    [ entry_date |-> d,
      symptoms |-> [i \in DOMAIN At(SymptomSeries[k.symptoms], d) |->
                       [symptom_type |-> At(SymptomSeries[k.symptoms], d)[i][1],
                        severity |-> At(SymptomSeries[k.symptoms], d)[i][2],
                        onset_time |-> At(SymptomSeries[k.symptoms], d)[i][3]]],
      medications |-> Doses(k, d, Len(MedNames)) ]

RECURSIVE SyncedTable(_, _, _)
SyncedTable(k, n, items) ==
    IF n = 0 THEN << >>
    ELSE replace_rows(SyncedTable(k, n - 1, items), n, MedEntry(k, n)[items])

InitMedication ==
    /\ \E k \in MedProfiles :
          /\ symptoms = SyncedTable(k, MedDays, "symptoms")
          /\ medications = SyncedTable(k, MedDays, "medications")
    /\ daily_summary = << >>
    /\ daily_factors = << >>
    /\ diary = << >>
    /\ storage_db = "none"
    /\ call = NoCall
    /\ outcome = "none"
    /\ df = << >>
    /\ repeated = FALSE
    /\ results = << >>

\* The calls made: the last date of the range, whether the database fails,
\* and the medication whose computation raises, if any
MedicationCalls ==
    { [op |-> "analyze_medication_effectiveness", start |-> 1, end |-> e,
       min_days |-> 0, use_db |-> TRUE, sqlite_fails |-> sf, json_fails |-> FALSE,
       raises_for |-> x] :
        e \in {MedDays - 2, MedDays}, sf \in BOOLEAN,
        x \in {"none"} \cup {MedNames[m] : m \in DOMAIN MedNames} }

\* service.analyze_medication_effectiveness(start_date, end_date)
AnalyzeMedicationEffectiveness(c) ==
    /\ Idle
    /\ call' = c
    /\ outcome' = "returned"
    /\ results' = analyze_medication_effectiveness(symptoms, medications, c)
    /\ ReadStores(TRUE)
    /\ UNCHANGED <<storage_db, df, repeated>>

NextMedication ==
    \/ \E c \in {x \in MedicationCalls : x.sqlite_fails => x.raises_for = "none"} :
          AnalyzeMedicationEffectiveness(c)
    \/ Discard

MedicationSpec == InitMedication /\ [][NextMedication]_vars

\* ------------------------------------------------ medication analyzer claims
MedicationsReturned == call.op = "analyze_medication_effectiveness"
NoFailure == MedicationsReturned /\ ~call.sqlite_fails /\ call.raises_for = "none"

\* The medication records of the range: <<date, index among the date's rows>>
MedRecords ==
    {<<d, i>> \in (call.start..call.end) \X (1..(2 * Len(MedNames))) :
        d \in DOMAIN medications /\ i \in DOMAIN medications[d]}

LoweredNames == {lower(medications[x[1]][x[2]].name) : x \in MedRecords}
RecordsOf(name) == {x \in MedRecords : lower(medications[x[1]][x[2]].name) = name}
ResultsFor(name) == {j \in DOMAIN results : results[j].medication = title(name)}

\* C15: every medication result has data_quality "good" iff times_taken >= 5,
\* "limited" iff 3 <= times_taken < 5, and "insufficient" iff times_taken < 3.
C15_DataQualityFollowsTimesTaken ==
    MedicationsReturned =>
        \A j \in DOMAIN results :
            /\ results[j].data_quality = "good" <=> results[j].times_taken >= 5
            /\ results[j].data_quality = "limited"
                  <=> (3 <= results[j].times_taken /\ results[j].times_taken < 5)
            /\ results[j].data_quality = "insufficient" <=> results[j].times_taken < 3

\* a returned list that holds a result of each of the three labels
C15_Witness ==
    /\ MedicationsReturned
    /\ \A q \in {"good", "limited", "insufficient"} :
          \E j \in DOMAIN results : results[j].data_quality = q
    /\ \E j \in DOMAIN results : results[j].times_taken = 5
    /\ \E j \in DOMAIN results : results[j].times_taken = 3

DatesOf(name) == {x[1] : x \in RecordsOf(name)}
SpellingsOf(name) == {medications[x[1]][x[2]].name : x \in RecordsOf(name)}

\* C16: when nothing fails, analyze_medication_effectiveness returns exactly
\* one result for each distinct lowered medication name of the range and no
\* other result; its times_taken is the number of medication records of that
\* name and its days_taken the number of distinct dates among them, so that
\* the times_taken sum to the number of records and days_taken <= times_taken.
C16_OneResultPerLoweredName ==
    NoFailure =>
        /\ \A name \in LoweredNames : Cardinality(ResultsFor(name)) = 1
        /\ DOMAIN results = UNION {ResultsFor(name) : name \in LoweredNames}
        /\ \A name \in LoweredNames : \A j \in ResultsFor(name) :
              /\ results[j].times_taken = Cardinality(RecordsOf(name))
              /\ results[j].days_taken = Cardinality(DatesOf(name))
        /\ SumSeq(Column(results, "times_taken")) = Cardinality(MedRecords)
        /\ \A j \in DOMAIN results : results[j].days_taken <= results[j].times_taken

\* three medications returned, one logged in several spellings and taken
\* twice on one day
C16_Witness ==
    /\ NoFailure
    /\ Cardinality(LoweredNames) = Len(MedNames)
    /\ \E name \in LoweredNames : \E j \in ResultsFor(name) :
          /\ Cardinality(SpellingsOf(name)) >= 2
          /\ results[j].days_taken < results[j].times_taken

\* The headache records of the range: <<date, index among the date's rows>>
HeadacheRecords ==
    {<<d, i>> \in (call.start..call.end) \X (1..3) :
        /\ d \in DOMAIN symptoms /\ i \in DOMAIN symptoms[d]
        /\ symptoms[d][i].symptom_type \in headache_types}

OnMedDays(name) == {h \in HeadacheRecords : h[1] \in DatesOf(name)}
OnOtherDays(name) == HeadacheRecords \ OnMedDays(name)
SeverityOf(h) == symptoms[h[1]][h[2]].severity

\* The medication was taken on headache days only, and every headache of
\* those days was more severe than every headache of the other days
TakenOnMostSevereDays(name) ==
    /\ \A d \in DatesOf(name) : \E h \in HeadacheRecords : h[1] = d
    /\ \A h \in OnMedDays(name) : \A g \in OnOtherDays(name) :
          SeverityOf(h) > SeverityOf(g)

HasNote(j, note) ==
    \E n \in DOMAIN results[j].effectiveness_notes :
        results[j].effectiveness_notes[n].note = note

\* The statement of C17 as given: a medication taken exactly 3 times, only on
\* the most severe headache days, with no headache record on any other day,
\* has the note of higher severity and no note of lower severity.
C17_RescueNoteWithoutBaseline ==
    MedicationsReturned =>
        \A name \in LoweredNames : \A j \in ResultsFor(name) :
            ( /\ results[j].times_taken = 3
              /\ TakenOnMostSevereDays(name)
              /\ OnOtherDays(name) = {} )
            => /\ HasNote(j, "taken for more severe headaches")
               /\ ~HasNote(j, "lower severity")

\* C17: a medication taken exactly 3 times, only on the most severe headache
\* days, has no note of lower severity; it has the note of higher severity
\* exactly when there is a headache record on some day it was not taken, and
\* no comparison note when there is none.
C17_RescueNoteNeedsBaseline ==
    MedicationsReturned =>
        \A name \in LoweredNames : \A j \in ResultsFor(name) :
            (results[j].times_taken = 3 /\ TakenOnMostSevereDays(name))
            => /\ ~HasNote(j, "lower severity")
               /\ HasNote(j, "taken for more severe headaches")
                     <=> OnOtherDays(name) # {}

\* a medication taken 3 times, on the only headache days of the range
C17_Witness ==
    /\ MedicationsReturned
    /\ \E name \in LoweredNames : \E j \in ResultsFor(name) :
          /\ results[j].times_taken = 3
          /\ TakenOnMostSevereDays(name)
          /\ OnOtherDays(name) = {}
          /\ OnMedDays(name) # {}
          /\ ~HasNote(j, "taken for more severe headaches")

OnsetOf(h) == symptoms[h[1]][h[2]].onset_time
HeadachesOn(d) == {h \in HeadacheRecords : h[1] = d}

\* Record g comes before record h in the order of onset time; a record
\* without onset time comes after those that have one
OnsetBefore(g, h) ==
    /\ OnsetOf(g) # Null
    /\ OnsetOf(h) = Null \/ OnsetOf(g) < OnsetOf(h)

FirstByOnset(d) == {h \in HeadachesOn(d) : \A g \in HeadachesOn(d) : ~OnsetBefore(g, h)}
LastByOnset(d) == {h \in HeadachesOn(d) : \A g \in HeadachesOn(d) : ~OnsetBefore(h, g)}

\* The days the medication was taken that have at least two headache records
TrackedDays(name) == {d \in DatesOf(name) : Cardinality(HeadachesOn(d)) >= 2}

\* The tracked days on which the last severity is strictly below the first
ReliefDays(name) ==
    {d \in TrackedDays(name) :
        \E f \in FirstByOnset(d) : \E l \in LastByOnset(d) :
            SeverityOf(l) < SeverityOf(f)}

ReliefNotes(j) ==
    {n \in DOMAIN results[j].effectiveness_notes :
        results[j].effectiveness_notes[n].note = "same-day relief"}

\* C18: for each medication, over the days it was taken that have at least
\* two headache records, a day counts as relief iff the severity of the record
\* last in onset-time order is strictly lower than that of the first, and as
\* no-relief otherwise; days with fewer than two headache records count as
\* neither; the relief-rate note, relief out of relief + no-relief, is emitted
\* iff there is such a day.
C18_ReliefCountsLastAgainstFirst ==
    MedicationsReturned =>
        \A name \in LoweredNames : \A j \in ResultsFor(name) :
            /\ ReliefNotes(j) # {} <=> TrackedDays(name) # {}
            /\ \A n \in ReliefNotes(j) :
                  /\ results[j].effectiveness_notes[n].relief_cases
                        = Cardinality(ReliefDays(name))
                  /\ results[j].effectiveness_notes[n].tracked_cases
                        = Cardinality(TrackedDays(name))

\* a medication with a day of relief, a day of equal first and last severity,
\* a day whose last record has no onset time, and a day with one headache
C18_Witness ==
    /\ MedicationsReturned
    /\ \E name \in LoweredNames : \E j \in ResultsFor(name) :
          /\ ReliefNotes(j) # {}
          /\ ReliefDays(name) # {}
          /\ \E d \in TrackedDays(name) \ ReliefDays(name) :
                \E f \in FirstByOnset(d) : \E l \in LastByOnset(d) :
                    f # l /\ SeverityOf(l) = SeverityOf(f)
          /\ \E d \in TrackedDays(name) : \E l \in LastByOnset(d) : OnsetOf(l) = Null
          /\ \E d \in DatesOf(name) : Cardinality(HeadachesOn(d)) = 1

\* The computation of one medication of the range raised
OneMedicationFailed ==
    MedicationsReturned /\ ~call.sqlite_fails /\ call.raises_for \in LoweredNames

\* C19: every list analyze_medication_effectiveness returns, also when an
\* error was caught, is in non-increasing order of times_taken.
C19_SortedByTimesTaken ==
    MedicationsReturned =>
        \A a, b \in DOMAIN results :
            a < b => results[a].times_taken >= results[b].times_taken

\* C20: when the computation for one medication fails, that medication alone
\* is missing from the returned list: every other medication of the range,
\* processed before or after it, has its result, and nothing is raised.
C20_OnlyFailingMedicationMissing ==
    OneMedicationFailed =>
        /\ outcome = "returned"
        /\ ResultsFor(call.raises_for) = {}
        /\ \A name \in LoweredNames \ {call.raises_for} : ResultsFor(name) # {}

\* ------------------------------------------------------------ insight generator
InsightDays == 21         \* the insight diaries cover the dates 1..InsightDays

\* The pairs of rates, in lowest terms with denominators up to 24, of which the
\* first is exactly 1.2 times the second and the double of the first is above
\* the product of the doubles (0.2 > (1 / 6) * 1.2 = 0.19999999999999998)
RoundsAbove120 ==
    { <<1, 20, 1, 24>>, <<1, 10, 1, 12>>, <<1, 5, 1, 6>>, <<2, 5, 1, 3>>,
      <<9, 20, 3, 8>>, <<11, 20, 11, 24>>, <<13, 20, 13, 24>>, <<4, 5, 2, 3>>,
      <<9, 11, 15, 22>>, <<13, 15, 13, 18>>, <<9, 10, 3, 4>> }

\* a > b * f for the doubles of the rates a and b and of the factor f = fn / fd:
\* the exact comparison, except where a is exactly b * f
relative_exceeds(a, b, fn, fd, above) ==
    LET lhs == a.num * b.den * fd
        rhs == b.num * a.den * fn
    IN  \/ lhs > rhs
        \/ lhs = rhs /\ LowestTerms(a) \o LowestTerms(b) \in above

\* low_rate >= high_rate * 1.3
exceeds_by_30_or_equals(a, b) == a.num * b.den * 10 >= b.num * a.den * 13

\* low_sleep_symptom_rate > high_sleep_symptom_rate * 1.3: no pair of rates
\* with denominators up to 24 rounds across this comparison
exceeds_by_30(a, b) == relative_exceeds(a, b, 13, 10, {})

\* high_rate > low_rate * 1.2 and inactive_rate > active_rate * 1.2
exceeds_by_20(a, b) == relative_exceeds(a, b, 6, 5, RoundsAbove120)

Insight(category, priority, insight, quality) ==
    [category |-> category, priority |-> priority, insight |-> insight,
     data_quality |-> quality]

\* 'good' if len(group) >= 10 else 'limited'
group_quality(group) == IF Len(group) >= 10 THEN "good" ELSE "limited"

\* df[df[col] < bound] and df[df[col] >= bound]: a comparison with NaN is false
Below(rows, col, bound) ==
    SelectSeq(rows, LAMBDA row : row[col] # Null /\ row[col] < bound)

AtLeast(rows, col, bound) ==
    SelectSeq(rows, LAMBDA row : row[col] # Null /\ row[col] >= bound)

\* df[df[col] > bound] and df[df[col] <= bound]
Above(rows, col, bound) ==
    SelectSeq(rows, LAMBDA row : row[col] # Null /\ row[col] > bound)

AtMost(rows, col, bound) ==
    SelectSeq(rows, LAMBDA row : row[col] # Null /\ row[col] <= bound)

\* 1. Sleep quality impact
sleep_insight(rows, symptom_col) ==
    LET low_sleep == Below(rows, "sleep_score", 70)
        high_sleep == AtLeast(rows, "sleep_score", 70)
    IN  IF /\ Len(low_sleep) >= 5 /\ Len(high_sleep) >= 5
           /\ exceeds_by_30(mean(low_sleep, symptom_col), mean(high_sleep, symptom_col))
        THEN << Insight("Sleep", "high", "Poor sleep nights have more symptom days",
                        group_quality(low_sleep)) >>
        ELSE << >>

\* 2. Weekend patterns
lifestyle_insight(rows, symptom_col) ==
    LET weekend == Rows(rows, "is_weekend", 1)
        weekdays == Rows(rows, "is_weekend", 0)
        weekend_rate == mean(weekend, symptom_col)
        weekday_rate == mean(weekdays, symptom_col)
    IN  IF Len(weekend) >= 5 /\ Len(weekdays) >= 10
        THEN IF RateLess(weekday_rate, weekend_rate)
                /\ exceeds_15(weekend_rate, weekday_rate)
             THEN << Insight("Lifestyle", "medium", "Weekend symptom rate is higher",
                             "good") >>
             ELSE IF ~RateLess(weekday_rate, weekend_rate)
                     /\ exceeds_15(weekday_rate, weekend_rate)
             THEN << Insight("Lifestyle", "medium", "Weekday symptom rate is higher",
                             "good") >>
             ELSE << >>
        ELSE << >>

\* 3. Caffeine impact (with lag): df['caffeine_prev'] = df['total_caffeine_mg'].shift(1)
caffeine_insight(rows, symptom_col) ==
    LET prev == shift(rows, "total_caffeine_mg", 1)
        lagged == [i \in DOMAIN rows |-> [caffeine_prev |-> prev[i]] @@ rows[i]]
        high_caffeine == Above(lagged, "caffeine_prev", 200)
        low_caffeine == AtMost(lagged, "caffeine_prev", 200)
    IN  IF /\ Len(high_caffeine) >= 5 /\ Len(low_caffeine) >= 5
           /\ exceeds_by_20(mean(high_caffeine, symptom_col),
                            mean(low_caffeine, symptom_col))
        THEN << Insight("Diet", "medium", "High caffeine days are followed by more symptoms",
                        group_quality(high_caffeine)) >>
        ELSE << >>

\* 4. Exercise benefits
exercise_insight(rows, symptom_col) ==
    LET active == AtLeast(rows, "total_activity_minutes", 30)
        inactive == Below(rows, "total_activity_minutes", 30)
    IN  IF /\ Len(active) >= 5 /\ Len(inactive) >= 5
           /\ exceeds_by_20(mean(inactive, symptom_col), mean(active, symptom_col))
        THEN << Insight("Exercise", "medium", "Days with 30+ min activity have fewer symptoms",
                        group_quality(active)) >>
        ELSE << >>

\* The values of a column in ascending order
RECURSIVE Ascending(_)
Ascending(s) ==
    IF s = << >> THEN << >>
    ELSE LET rest == Ascending(Tail(s))
         IN  SelectSeq(rest, LAMBDA v : v <= Head(s)) \o <<Head(s)>>
                \o SelectSeq(rest, LAMBDA v : v > Head(s))

\* Series.quantile(quarters / 4), linear interpolation, in quarters of a unit:
\* the value at position (n - 1) * quarters / 4 of the sorted values
quantile(values, quarters) ==
    LET sorted == Ascending(values)
        pos == (Len(values) - 1) * quarters
        lo == sorted[(pos \div 4) + 1]
        hi == sorted[IF pos % 4 = 0 THEN (pos \div 4) + 1 ELSE (pos \div 4) + 2]
    IN  4 * lo + (pos % 4) * (hi - lo)

\* 5. Weather sensitivity
weather_insight(rows, symptom_col) ==
    LET valid_pressure == SelectSeq(rows, LAMBDA row : row.pressure_hpa # Null)
        values == [i \in DOMAIN valid_pressure |-> valid_pressure[i].pressure_hpa]
        low_p == SelectSeq(valid_pressure,
                           LAMBDA row : 4 * row.pressure_hpa < quantile(values, 1))
        high_p == SelectSeq(valid_pressure,
                            LAMBDA row : 4 * row.pressure_hpa > quantile(values, 3))
    IN  IF /\ Len(valid_pressure) >= 20
           /\ Len(low_p) >= 5 /\ Len(high_p) >= 5
           /\ exceeds_by_30(mean(low_p, symptom_col), mean(high_p, symptom_col))
        THEN << Insight("Weather", "low", "Low pressure days show more symptoms", "good") >>
        ELSE << >>

\* priority_order.get(x['priority'], 3)
priority_order_low_first(priority) ==
    CASE priority = "high" -> 2 [] priority = "medium" -> 1 [] priority = "low" -> 0
      [] OTHER -> 3

priority_order(priority) ==
    CASE priority = "high" -> 0 [] priority = "medium" -> 1 [] priority = "low" -> 2
      [] OTHER -> 3

\* insights.sort(key=lambda x: priority_order.get(x['priority'], 3))
sort_by_priority(insights) ==
    LET lt == [a \in 1..Len(insights), b \in 1..Len(insights) |->
                  priority_order(insights[a].priority)
                      < priority_order(insights[b].priority)]
        order == list_sort(Len(insights), lt, FALSE)
    IN  [i \in 1..Len(insights) |-> insights[order[i]]]

\* The rule of one column, when the table has the column
WithColumn(rows, col, insights) == IF col \in Columns(rows) THEN insights ELSE << >>

\* AnalysisService.get_actionable_insights
get_actionable_insights(ds, fac, docs, handle, c) ==
    LET built == build_dataframe(ds, fac, docs, handle, c)
        rows == built.df
        symptom_col == IF "has_headache" \in Columns(rows) THEN "has_headache"
                       ELSE IF "has_symptoms" \in Columns(rows) THEN "has_symptoms"
                       ELSE "None"
        insights ==
            WithColumn(rows, "sleep_score", sleep_insight(rows, symptom_col))
            \o WithColumn(rows, "is_weekend", lifestyle_insight(rows, symptom_col))
            \o WithColumn(rows, "total_caffeine_mg", caffeine_insight(rows, symptom_col))
            \o WithColumn(rows, "total_activity_minutes", exercise_insight(rows, symptom_col))
            \o WithColumn(rows, "pressure_hpa", weather_insight(rows, symptom_col))
    IN  built @@ [results |-> IF built.outcome = "raised" \/ rows = << >>
                                 \/ symptom_col = "None"
                              THEN << >> ELSE sort_by_priority(insights)]

\* ------------------------------------------------- the insight generator system
\* AnalyticsDB.sync_quick_log, the totals: UPDATE of the day's summary row, or
\* INSERT of a row whose other columns take their schema defaults
sync_totals(ds, d, caffeine_mg, alcohol_units) ==
    [x \in (DOMAIN ds) \cup {d} |->
        IF x # d THEN ds[x]
        ELSE IF d \in DOMAIN ds
        THEN [ds[d] EXCEPT !.total_caffeine_mg = caffeine_mg,
                           !.total_alcohol_units = alcohol_units]
        ELSE [ entry_date |-> d, symptom_count |-> 0, worst_symptom_severity |-> Null,
               has_headache |-> 0, sleep_score |-> Null, total_sleep_minutes |-> Null,
               total_activity_minutes |-> 0, total_elevation_m |-> 0,
               total_alcohol_units |-> alcohol_units, total_caffeine_mg |-> caffeine_mg,
               pressure_hpa |-> Null ]]

\* The dates of a sample diary on which a symptom was logged
SymptomDays ==
    << {}, (1..6) \cup {16, 17}, (1..9) \cup {16, 17, 18},
       {4, 5, 6, 7, 8, 11, 12, 13}, {1, 2, 4, 5, 9, 11, 18}, {2, 3, 7, 8} >>

\* The ways a sample diary splits its dates in two groups; the dates in
\* neither group have no reading
Splits ==
    << [a |-> 1..10, b |-> 11..20], [a |-> 11..20, b |-> 1..10],
       [a |-> 1..4, b |-> 5..21], [a |-> 1..15, b |-> 16..21],
       [a |-> 1..5, b |-> 17..21], [a |-> 2..6, b |-> 7..12] >>

NoData == 0

\* A sample diary: its symptom dates; the split of its dates in poor and good
\* sleep, in dates after much and after little caffeine, in inactive and
\* active dates, and in dates of low and of high pressure
InsightProfiles ==
    [symptom : DOMAIN SymptomDays, sleep : {NoData, 1, 2, 3}, caffeine : {1, 2, 4, 6},
     activity : {1, 2, 4}, pressure : {NoData, 1, 5}]

InGroup(split, d, group) == split # NoData /\ d \in Splits[split][group]

InsightEntry(k, d) ==
    LET slept == InGroup(k.sleep, d, "a") \/ InGroup(k.sleep, d, "b")
    IN  [ entry_date |-> d,
          severity |-> IF d \in SymptomDays[k.symptom] THEN <<5>> ELSE << >>,
          has_sleep |-> slept,
          sleep_score |-> IF InGroup(k.sleep, d, "a") THEN 69
                          ELSE IF InGroup(k.sleep, d, "b") THEN 70 ELSE Null,
          total_sleep_minutes |-> IF slept THEN 420 ELSE Null,
          has_weather |-> k.pressure # NoData,
          pressure_hpa |-> IF k.pressure = NoData THEN Null
                           ELSE IF InGroup(k.pressure, d, "a") THEN 1000
                           ELSE IF InGroup(k.pressure, d, "b") THEN 1020 ELSE 1010,
          activity_minutes |-> IF InGroup(k.activity, d, "b") THEN 30 ELSE 29,
          elevation_gain |-> 0,
          alcohol_units |-> 0 ]

\* routines.calculate_totals: the caffeine of the day's quick log
Caffeine(k, d) ==
    IF InGroup(k.caffeine, d + 1, "a") THEN 201
    ELSE IF InGroup(k.caffeine, d + 1, "b") THEN 200 ELSE 0

RECURSIVE InsightDiary(_, _)
InsightDiary(k, n) ==
    IF n = 0 THEN << >> ELSE save_entry(InsightDiary(k, n - 1), InsightEntry(k, n))

RECURSIVE InsightSymptoms(_, _)
InsightSymptoms(k, n) ==
    IF n = 0 THEN << >>
    ELSE replace_rows(InsightSymptoms(k, n - 1), n, EntrySymptoms(InsightEntry(k, n)))

RECURSIVE InsightSummary(_, _)
InsightSummary(k, n) ==
    IF n = 0 THEN << >>
    ELSE sync_totals(upsert_entry(InsightSummary(k, n - 1), InsightEntry(k, n)),
                     n, Caffeine(k, n), 0)

InitInsights ==
    /\ \E k \in InsightProfiles :
          /\ daily_summary = InsightSummary(k, InsightDays)
          /\ symptoms = InsightSymptoms(k, InsightDays)
          /\ diary = InsightDiary(k, InsightDays)
    /\ daily_factors = << >>
    /\ medications = << >>
    /\ storage_db = "none"
    /\ call = NoCall
    /\ outcome = "none"
    /\ df = << >>
    /\ repeated = FALSE
    /\ results = << >>

\* The calls made: all the dates or the first twelve, with or without SQLite
InsightCalls ==
    { [op |-> "get_actionable_insights", start |-> 1, end |-> e,
       min_days |-> DefaultMinDays, use_db |-> u, sqlite_fails |-> FALSE,
       json_fails |-> FALSE] : e \in {12, InsightDays}, u \in BOOLEAN }

\* service.get_actionable_insights(start_date, end_date)
GetActionableInsights(c) ==
    /\ Idle
    /\ \E r \in {get_actionable_insights(daily_summary, daily_factors, diary,
                                           storage_db, c)} :
          /\ call' = c
          /\ outcome' = r.outcome
          /\ df' = r.df
          /\ storage_db' = r.handle
          /\ results' = r.results
    /\ ReadStores(c.use_db)
    /\ UNCHANGED repeated

NextInsights ==
    \/ \E c \in InsightCalls : GetActionableInsights(c)
    \/ Discard

InsightSpec == InitInsights /\ [][NextInsights]_vars


\* --------------------------------------------------- insight generator claims
InsightsReturned ==
    call.op = "get_actionable_insights" /\ outcome = "returned" /\ df # << >>

InsightsOf(category) == {j \in DOMAIN results : results[j].category = category}

\* The rows of the table that have a reading of the column
Readings(col) ==
    {i \in DOMAIN df : col \in DOMAIN df[i] /\ df[i][col] # Null}

LowSleepRows == {i \in Readings("sleep_score") : df[i].sleep_score < 70}
HighSleepRows == {i \in Readings("sleep_score") : df[i].sleep_score >= 70}

\* The symptom rate of group h is at least, or is above, fn / fd times that of g
RateAtLeastTimes(h, g, fn, fd) ==
    Occurrences(h) * Cardinality(g) * fd >= fn * Occurrences(g) * Cardinality(h)

RateAboveTimes(h, g, fn, fd) ==
    Occurrences(h) * Cardinality(g) * fd > fn * Occurrences(g) * Cardinality(h)

\* The group has n rows, on s of which a symptom was logged
GroupOf(group, n, s) == Cardinality(group) = n /\ Occurrences(group) = s

C21_NoSymptomNoInsight ==
    /\ InsightsReturned
    /\ Cardinality(LowSleepRows) >= 5 /\ Cardinality(HighSleepRows) >= 5
    /\ Occurrences(LowSleepRows) = 0 /\ Occurrences(HighSleepRows) = 0
    /\ InsightsOf("Sleep") = {}


ActiveRows == {i \in Readings("total_activity_minutes") : df[i].total_activity_minutes >= 30}
InactiveRows == {i \in Readings("total_activity_minutes") : df[i].total_activity_minutes < 30}

\* C22: get_actionable_insights emits the Exercise insight, with priority
\* medium, if and only if the rows with at least 30 activity minutes and the
\* rows with fewer each number at least 5 and the symptom rate of the inactive
\* rows is strictly above 1.2 times that of the active rows; when it is
\* exactly 1.2 times that rate, and when both rates are 0, none is emitted.
C22_ExerciseInsightIffRateAbove120 ==
    InsightsReturned =>
        /\ InsightsOf("Exercise") # {}
              <=> /\ Cardinality(ActiveRows) >= 5
                  /\ Cardinality(InactiveRows) >= 5
                  /\ RateAboveTimes(InactiveRows, ActiveRows, 6, 5)
        /\ \A j \in InsightsOf("Exercise") : results[j].priority = "medium"

\* The rows whose predecessor in the table has a caffeine value
AfterCaffeine ==
    {i \in DOMAIN df : i > 1 /\ (i - 1) \in Readings("total_caffeine_mg")}

HighCaffeineRows == {i \in AfterCaffeine : df[i - 1].total_caffeine_mg > 200}
LowCaffeineRows == {i \in AfterCaffeine : df[i - 1].total_caffeine_mg <= 200}

\* C23: get_actionable_insights emits the Diet insight, with priority medium,
\* if and only if, grouping each row by the caffeine value of the row before
\* it in the table (above 200 mg against 200 mg or less; the first row and
\* the rows after a row without a caffeine value are in neither group), both
\* groups have at least 5 rows and the symptom rate of the high group is at
\* least 1.2 times that of the low group.
C23_DietInsightIffRateAtLeast120 ==
    InsightsReturned =>
        /\ InsightsOf("Diet") # {}
              <=> /\ Cardinality(HighCaffeineRows) >= 5
                  /\ Cardinality(LowCaffeineRows) >= 5
                  /\ RateAtLeastTimes(HighCaffeineRows, LowCaffeineRows, 6, 5)
        /\ \A j \in InsightsOf("Diet") : results[j].priority = "medium"

\* The place of a priority among the priorities, and of a category among the rules
PriorityRank(priority) ==
    CASE priority = "high" -> 1 [] priority = "medium" -> 2 [] priority = "low" -> 3

RuleRank(category) ==
    CASE category = "Sleep" -> 1 [] category = "Lifestyle" -> 2 [] category = "Diet" -> 3
      [] category = "Exercise" -> 4 [] category = "Weather" -> 5

\* C24: in every list get_actionable_insights returns, no insight of a lower
\* priority precedes one of a higher priority, insights of equal priority are
\* in rule order, and each of the five categories appears at most once.
C24_SortedByPriorityInRuleOrder ==
    (call.op = "get_actionable_insights" /\ outcome = "returned") =>
        /\ \A i, j \in DOMAIN results :
              i < j =>
                 /\ PriorityRank(results[i].priority) <= PriorityRank(results[j].priority)
                 /\ results[i].priority = results[j].priority
                       => RuleRank(results[i].category) < RuleRank(results[j].category)
        /\ \A i, j \in DOMAIN results :
              results[i].category = results[j].category => i = j
        /\ \A j \in DOMAIN results :
              results[j].category \in {"Sleep", "Lifestyle", "Diet", "Exercise", "Weather"}

\* A list of all five insights: one high, three medium and one low
C24_Witness ==
    /\ call.op = "get_actionable_insights" /\ outcome = "returned"
    /\ Len(results) = 5
    /\ \E j \in DOMAIN results : results[j].priority = "low"


\* ------------------------------------------------------- summary statistics
\* df[col].sum(): NaN is skipped
column_sum(rows, col) ==
    SumSeq([i \in DOMAIN rows |-> IF rows[i][col] = Null THEN 0 ELSE rows[i][col]])

\* float(df[col].dropna().mean()) when the column exists and has a value
column_mean(rows, col) ==
    LET valid == IF col \in Columns(rows)
                 THEN SelectSeq(rows, LAMBDA row : row[col] # Null) ELSE << >>
    IN  IF valid = << >> THEN None
        ELSE [num |-> column_sum(valid, col), den |-> Len(valid)]

\* The statistics get_summary_stats computes from the table; the symptom
\* column is has_headache, else has_symptoms, else symptom_count > 0
summary_stats(rows) ==
    LET cols == Columns(rows)
        dates == {rows[i].date : i \in DOMAIN rows}
        days == IF "has_headache" \in cols
                THEN Cardinality({i \in DOMAIN rows : rows[i].has_headache = 1})
                ELSE IF "has_symptoms" \in cols
                THEN Cardinality({i \in DOMAIN rows : rows[i].has_symptoms = 1})
                ELSE IF "symptom_count" \in cols
                THEN Cardinality({i \in DOMAIN rows : rows[i].symptom_count > 0})
                ELSE 0
    IN  [ period_days |-> Cardinality(dates),
          start_date |-> IF Len(rows) > 0
                         THEN CHOOSE d \in dates : \A x \in dates : d <= x ELSE Null,
          end_date |-> IF Len(rows) > 0
                       THEN CHOOSE d \in dates : \A x \in dates : d >= x ELSE Null,
          days_with_symptoms |-> days,
          symptom_rate |-> [num |-> days, den |-> Len(rows)],
          avg_wellbeing |-> column_mean(rows, "overall_wellbeing"),
          avg_sleep_score |-> column_mean(rows, "sleep_score"),
          total_activity_hours |->
              IF "total_activity_minutes" \in cols
              THEN [num |-> column_sum(rows, "total_activity_minutes"), den |-> 60]
              ELSE [num |-> 0, den |-> 1],
          total_elevation_m |-> IF "total_elevation_m" \in cols
                                THEN column_sum(rows, "total_elevation_m") ELSE 0 ]

\* get_summary_stats without its test for the empty table
get_summary_stats_unguarded(ds, fac, docs, handle, c) ==
    LET built == build_dataframe(ds, fac, docs, handle, c)
    IN  built @@ [results |-> IF built.outcome = "raised" THEN << >>
                              ELSE summary_stats(built.df)]

\* AnalysisService.get_summary_stats
get_summary_stats(ds, fac, docs, handle, c) ==
    LET built == build_dataframe(ds, fac, docs, handle, c)
    IN  built @@ [results |-> IF built.outcome = "raised" THEN << >>
                              ELSE IF built.df = << >>
                              THEN [error |-> "No data available"]
                              ELSE summary_stats(built.df)]

\* ------------------------------------------------------ the analysis service
\* The stores hold a sample diary of MaxDays days, saved and synced, and the
\* medications logged on its first MedDays days
ServiceProfiles == {k \in Profiles : k.weather = k.sleep}

InitService ==
    /\ \E k \in ServiceProfiles :
          /\ daily_summary = SyncedSummary(k, MaxDays)
          /\ symptoms = SyncedSymptoms(k, MaxDays)
          /\ diary = SavedDiary(k, MaxDays)
          /\ medications =
                SyncedTable([doses |-> [m \in DOMAIN MedNames |-> k.symptom],
                             symptoms |-> 1], MedDays, "medications")
    /\ daily_factors = sync_quick_log(MaxDays)
    /\ storage_db = "none"
    /\ call = NoCall
    /\ outcome = "none"
    /\ df = << >>
    /\ repeated = FALSE
    /\ results = << >>

\* The calls made: the operation, the target of a correlation analysis (one
\* column of the table and one that no table has), a range of dates shorter
\* than the minimum or the whole diary, and the service's use_db flag
ServiceCalls(op, targets) ==
    { [op |-> op, target |-> t, start |-> 1, end |-> e,
       min_days |-> DefaultMinDays, use_db |-> u, sqlite_fails |-> FALSE,
       json_fails |-> FALSE, max_lag_days |-> MaxLag, warnings |-> "default",
       raises_for |-> "none"] :
        t \in targets, e \in {DefaultMinDays - 1, MaxDays}, u \in BOOLEAN }

\* service.get_summary_stats(start_date, end_date)
GetSummaryStats(c) ==
    /\ Idle
    /\ \E r \in {get_summary_stats(daily_summary, daily_factors, diary, storage_db, c)} :
          /\ call' = c
          /\ outcome' = r.outcome
          /\ df' = r.df
          /\ storage_db' = r.handle
          /\ results' = r.results
    /\ ReadStores(c.use_db)
    /\ UNCHANGED repeated

NextService ==
    \/ \E c \in ServiceCalls("build_dataframe", {"none"}) : FirstCall(c)
    \/ \E c \in ServiceCalls("analyze_symptom_correlations", {"has_headache", "mood_score"}) :
          AnalyzeSymptomCorrelations(c)
    \/ \E c \in ServiceCalls("analyze_lag_correlations", {"has_headache", "mood_score"}) :
          AnalyzeLagCorrelations(c)
    \/ \E c \in ServiceCalls("find_symptom_patterns", {"none"}) : FindSymptomPatterns(c)
    \/ \E c \in ServiceCalls("analyze_medication_effectiveness", {"none"}) :
          AnalyzeMedicationEffectiveness(c)
    \/ \E c \in ServiceCalls("get_actionable_insights", {"none"}) : GetActionableInsights(c)
    \/ \E c \in ServiceCalls("get_summary_stats", {"none"}) : GetSummaryStats(c)
    \/ Discard

ServiceSpec == InitService /\ [][NextService]_vars

\* ------------------------------------------------ claims about the service
\* The operations that return a list, and the correlation analyses among them
ListOperations ==
    {"analyze_symptom_correlations", "analyze_lag_correlations",
     "find_symptom_patterns", "get_actionable_insights"}

CorrelationAnalyses == {"analyze_symptom_correlations", "analyze_lag_correlations"}

\* The call made by the step has the answer of an operation without data
AnswersNoData ==
    /\ outcome' = "returned"
    /\ call'.op \in ListOperations => results' = << >>
    /\ call'.op = "get_summary_stats" => DOMAIN results' = {"error"}

\* C25: whenever build_dataframe yields the empty table, the two correlation
\* analyses, find_symptom_patterns and get_actionable_insights return an empty
\* list and get_summary_stats returns a dict with an 'error' entry only; none
\* of them raises.  The correlation analyses also return an empty list when
\* the target is not a column of the table.
C25_NoDataIsAnEmptyAnswer ==
    [][ (outcome = "none" /\ call'.op \in ListOperations \cup {"get_summary_stats"})
          => LET built == build_dataframe(daily_summary, daily_factors, diary,
                                          storage_db, call')
             IN  /\ (built.outcome = "returned" /\ built.df = << >>) => AnswersNoData
                 /\ ( /\ built.outcome = "returned"
                      /\ call'.op \in CorrelationAnalyses
                      /\ call'.target \notin Columns(built.df) ) => AnswersNoData
      ]_vars

\* get_summary_stats has answered for an empty table, without raising
C25_Witness ==
    /\ call.op = "get_summary_stats" /\ outcome = "returned" /\ df = << >>
    /\ DOMAIN results = {"error"}

\* A correlation analysis has answered for a table without its target
C25_MissingTarget ==
    /\ call.op \in CorrelationAnalyses /\ outcome = "returned" /\ df # << >>
    /\ call.target \notin Columns(df)
    /\ results = << >>

AnalysisOperations ==
    {"build_dataframe", "analyze_medication_effectiveness", "get_summary_stats"}
        \cup ListOperations

\* C26: no analysis operation inserts, updates or deletes a stored record.
\* Over any sequence of calls the daily summary, factor, symptom and
\* medication records and the JSON diary entries stay those present before.
C26_AnalysisLeavesStores ==
    [][call'.op \in AnalysisOperations => stores' = stores]_vars

\* Operations have answered from stores that hold records
C26_Witness ==
    /\ call.op = "analyze_medication_effectiveness" /\ results # << >>
    /\ daily_summary # << >> /\ medications # << >> /\ diary # << >>


\* ---------------------------------------------- the weekend pattern's groups
\* C28: find_symptom_patterns emits a weekend pattern only when the table has
\* at least one weekend row and at least one weekday row; a table whose rows
\* are all weekdays, or all weekend days, never yields a weekend pattern.
C28_WeekendPatternNeedsBothGroups ==
    PatternsReturned =>
        (PatternsOfType("weekend") # {} => WeekendRows # {} /\ WeekdayRows # {})


\* ------------------------------------------------ the averages of a medication
RECURSIVE SeverityTotal(_)
SeverityTotal(group) ==
    IF group = {} THEN 0
    ELSE LET h == CHOOSE x \in group : TRUE
         IN  SeverityOf(h) + SeverityTotal(group \ {h})

\* The mean severity of the group, rounded to one decimal, in tenths
IsRoundedMean(tenths, group) ==
    LET n == Cardinality(group)
        total == 10 * SeverityTotal(group)
    IN  /\ 2 * Abs(total - tenths * n) <= n
        /\ 2 * Abs(total - tenths * n) = n => tenths % 2 = 0

\* The average is None without a record, else the rounded mean of the group
IsAverageOf(average, group) ==
    IF group = {} THEN average = Null
    ELSE average # Null /\ IsRoundedMean(average, group)

\* C29: in every medication result avg_severity_med_days is None if and only
\* if there is no headache record on a day the medication was taken, and
\* avg_severity_baseline is None if and only if there is none on another day;
\* otherwise each is the mean severity of those records, rounded to one
\* decimal, also when that mean is 0.
C29_AveragesAreRoundedMeans ==
    NoFailure =>
        \A name \in LoweredNames : \A j \in ResultsFor(name) :
            /\ IsAverageOf(results[j].avg_severity_med_days, OnMedDays(name))
            /\ IsAverageOf(results[j].avg_severity_baseline, OnOtherDays(name))


\* ============================================================ diary entries
\* models/entry.py: the DiaryEntry object a caller holds and adds symptoms to.
MaxSymptoms == 3          \* an entry takes up to MaxSymptoms symptoms
MaxClock == 1             \* datetime.now() reads one of the instants 0..MaxClock

\* models/health.py: Symptom(type=..., severity=...), severity a Severity value
SymptomTypes == {"headache", "nausea"}
Severities == {0, 4, 7}
Symptom(type, severity) == [type |-> type, severity |-> severity]

\* DiaryEntry(entry_date=d): every other field takes its default
NewDiaryEntry(d, now) ==
    [ entry_date |-> d,
      created_at |-> now,
      updated_at |-> now,
      symptoms |-> << >>,
      is_complete |-> FALSE ]

\* An add_symptom that puts the symptom in front of the list
add_symptom_in_front(entry, symptom, now) ==
    [entry EXCEPT !.symptoms = <<symptom>> \o @, !.updated_at = now]

\* DiaryEntry.add_symptom: append, then stamp updated_at
add_symptom(entry, symptom, now) ==
    [entry EXCEPT !.symptoms = Append(@, symptom), !.updated_at = now]

\* DiaryEntry.mark_complete
mark_complete(entry, now) ==
    [entry EXCEPT !.is_complete = TRUE, !.updated_at = now]

\* DiaryEntry.has_symptoms
has_symptoms(entry) == Len(entry.symptoms) > 0

\* max(s.severity.value for s in self.symptoms), of a list that is not empty
RECURSIVE max_severity(_)
max_severity(list) ==
    IF Len(list) = 1 THEN Head(list).severity
    ELSE Max(Head(list).severity, max_severity(Tail(list)))

\* DiaryEntry.worst_symptom_severity
worst_symptom_severity(entry) ==
    IF entry.symptoms = << >> THEN 0 ELSE max_severity(entry.symptoms)

\* The caller holds an entry
HoldsEntry == outcome = "returned" /\ call.op \in {"DiaryEntry", "add_symptom", "mark_complete"}

\* entry = DiaryEntry(entry_date=d)
NewEntry(d) ==
    /\ Idle
    /\ \E now \in 0..MaxClock : results' = NewDiaryEntry(d, now)
    /\ call' = [op |-> "DiaryEntry", entry_date |-> d]
    /\ outcome' = "returned"
    /\ UNCHANGED <<stores, storage_db, df, repeated>>

\* entry.add_symptom(symptom)
AddSymptom(symptom) ==
    /\ HoldsEntry
    /\ Len(results.symptoms) < MaxSymptoms
    /\ \E now \in 0..MaxClock : results' = add_symptom(results, symptom, now)
    /\ call' = [op |-> "add_symptom", symptom |-> symptom]
    /\ UNCHANGED <<stores, storage_db, outcome, df, repeated>>

\* entry.mark_complete()
MarkComplete ==
    /\ HoldsEntry
    /\ \E now \in 0..MaxClock : results' = mark_complete(results, now)
    /\ call' = [op |-> "mark_complete"]
    /\ UNCHANGED <<stores, storage_db, outcome, df, repeated>>

NextEntry ==
    \/ \E d \in Dates : NewEntry(d)
    \/ \E t \in SymptomTypes, v \in Severities : AddSymptom(Symptom(t, v))
    \/ MarkComplete
    \/ Discard

EntrySpec == Init /\ [][NextEntry]_vars

\* ----------------------------------------------------------- entry claims
\* v is a severity of the list and no symptom of the list is more severe
IsLargestSeverity(v, list) ==
    /\ \E i \in 1..Len(list) : list[i].severity = v
    /\ \A i \in 1..Len(list) : list[i].severity <= v

\* C27: a new DiaryEntry has no symptoms and is not complete; every add_symptom
\* call leaves the symptoms list as it was with the added symptom at its end
\* (so the list holds exactly the added symptoms in call order); has_symptoms
\* is true if and only if at least one symptom was added, and
\* worst_symptom_severity is the largest severity of the list, 0 for none.
C27_SymptomsInCallOrder ==
    [][ /\ call'.op = "DiaryEntry" =>
              /\ results'.symptoms = << >>
              /\ ~results'.is_complete
              /\ ~has_symptoms(results')
              /\ worst_symptom_severity(results') = 0
        /\ call'.op = "add_symptom" =>
              /\ results'.symptoms = results.symptoms \o <<call'.symptom>>
              /\ has_symptoms(results')
              /\ IsLargestSeverity(worst_symptom_severity(results'), results'.symptoms)
        /\ call'.op = "mark_complete" =>
              /\ results'.symptoms = results.symptoms
              /\ has_symptoms(results') = has_symptoms(results) ]_vars

\* Three symptoms were added, the most severe first and the mildest last
C27_Witness ==
    /\ outcome = "returned"
    /\ call.op = "add_symptom"
    /\ Len(results.symptoms) = 3
    /\ results.symptoms[1].severity > results.symptoms[2].severity
    /\ results.symptoms[3].severity = 0
    /\ results.symptoms[3] = call.symptom
    /\ worst_symptom_severity(results) = results.symptoms[1].severity


\* ============================================================= diary storage
\* services/storage.py: DiaryStorage over diary.json, called with DiaryEntry
\* objects.  Optional[DiaryEntry] is a list of no entry (None) or one entry.
EntryFields == {"entry_date", "created_at", "updated_at", "symptoms", "is_complete"}

\* entry.model_dump(mode="json"): a document holding every field of the entry
model_dump(entry) == [f \in EntryFields |-> entry[f]]

\* DiaryEntry.model_validate(doc): the fields of the model, read from the
\* document; a list or flag the document lacks takes its default
model_validate(doc) ==
    [ entry_date |-> doc.entry_date,
      created_at |-> doc.created_at,
      updated_at |-> doc.updated_at,
      symptoms |-> IF "symptoms" \in DOMAIN doc THEN doc.symptoms ELSE << >>,
      is_complete |-> IF "is_complete" \in DOMAIN doc THEN doc.is_complete ELSE FALSE ]

RECURSIVE validate_all(_)
validate_all(docs) ==
    IF docs = << >> THEN << >>
    ELSE <<model_validate(Head(docs))>> \o validate_all(Tail(docs))

\* DiaryStorage.get_entry: the first document of that date, else None
get_entry(docs, d) ==
    LET found == SelectSeq(docs, LAMBDA e : InDate(e, d))
    IN  IF found # << >> THEN <<model_validate(found[1])>> ELSE << >>

\* The entries the callers save: of every date, with no symptom, with one
\* symptom and marked complete, or with two symptoms
RECURSIVE add_symptoms(_, _)
add_symptoms(entry, list) ==
    IF list = << >> THEN entry
    ELSE add_symptoms(add_symptom(entry, Head(list), entry.updated_at), Tail(list))

StoredEntries ==
    { NewDiaryEntry(d, 0) : d \in Dates }
    \cup { mark_complete(add_symptoms(NewDiaryEntry(d, 0), <<Symptom("headache", 4)>>),
                         MaxClock) : d \in Dates }
    \cup { add_symptoms(NewDiaryEntry(d, 0),
                        <<Symptom("nausea", 7), Symptom("headache", 0)>>) : d \in Dates }

\* storage.save_entry(entry)
StorageSaveEntry(entry) ==
    /\ diary' = save_entry(diary, model_dump(entry))
    /\ storage_db' = db(storage_db)
    /\ call' = [op |-> "save_entry", entry |-> entry]
    /\ outcome' = "returned"
    /\ results' = << >>
    /\ UNCHANGED <<daily_summary, daily_factors, symptoms, medications, df, repeated>>

\* storage.delete_entry(entry_date): returns whether a document was removed
StorageDeleteEntry(d) ==
    /\ diary' = delete_entry(diary, d)
    /\ storage_db' = db(storage_db)
    /\ call' = [op |-> "delete_entry", entry_date |-> d]
    /\ outcome' = "returned"
    /\ results' = <<HasDoc(diary, d)>>
    /\ UNCHANGED <<daily_summary, daily_factors, symptoms, medications, df, repeated>>

\* storage.get_entry(entry_date)
GetEntry(d) ==
    /\ results' = get_entry(diary, d)
    /\ storage_db' = db(storage_db)
    /\ call' = [op |-> "get_entry", entry_date |-> d]
    /\ outcome' = "returned"
    /\ UNCHANGED <<stores, df, repeated>>

\* storage.get_entries_in_range(start_date, end_date)
GetEntriesInRange(start, end) ==
    /\ results' = validate_all(get_entries_in_range(diary, start, end))
    /\ storage_db' = db(storage_db)
    /\ call' = [op |-> "get_entries_in_range", start |-> start, end |-> end]
    /\ outcome' = "returned"
    /\ UNCHANGED <<stores, df, repeated>>

NextStorage ==
    \/ \E entry \in StoredEntries : StorageSaveEntry(entry)
    \/ \E d \in Dates : StorageDeleteEntry(d)
    \/ \E d \in Dates : GetEntry(d)
    \/ \E start \in Dates, end \in Dates : GetEntriesInRange(start, end)

StorageSpec == Init /\ [][NextStorage]_vars

\* ---------------------------------------------------------- storage claims
DocsOf(docs, d) == {i \in 1..Len(docs) : docs[i].entry_date = d}

\* list holds each of the given entries once and nothing else
HoldsExactly(list, entries) ==
    /\ \A i \in 1..Len(list) : list[i] \in entries
    /\ \A e \in entries : Cardinality({i \in 1..Len(list) : list[i] = e}) = 1

DatesAscend(list) ==
    \A i \in 1..Len(list) : \A j \in 1..Len(list) :
        i < j => list[i].entry_date < list[j].entry_date

\* C30: after any sequence of save_entry and delete_entry calls the store
\* holds at most one entry per entry_date.  A save_entry makes get_entry of
\* its date return the saved entry and a delete_entry makes it return None,
\* and neither changes what get_entry returns for another date (so get_entry
\* returns the entry saved last for the date, None if it was deleted since);
\* get_entries_in_range returns exactly the stored entries whose date lies
\* in the closed range, in ascending date order.
C30_OneEntryPerDate ==
    [][ /\ \A d \in Dates : Cardinality(DocsOf(diary', d)) <= 1
        /\ call'.op = "save_entry" =>
              /\ get_entry(diary', call'.entry.entry_date) = <<call'.entry>>
              /\ \A d \in Dates \ {call'.entry.entry_date} :
                     get_entry(diary', d) = get_entry(diary, d)
        /\ call'.op = "delete_entry" =>
              /\ get_entry(diary', call'.entry_date) = << >>
              /\ \A d \in Dates \ {call'.entry_date} :
                     get_entry(diary', d) = get_entry(diary, d)
        /\ call'.op = "get_entry" =>
              /\ diary' = diary
              /\ results' = get_entry(diary, call'.entry_date)
        /\ call'.op = "get_entries_in_range" =>
              /\ diary' = diary
              /\ HoldsExactly(results',
                     { get_entry(diary, d)[1] :
                         d \in {x \in call'.start..call'.end : DocsOf(diary, x) # {}} })
              /\ DatesAscend(results') ]_vars

\* A range query over days saved out of date order, one of them saved again
\* with other content, answers with two entries
C30_Witness ==
    /\ call.op = "get_entries_in_range"
    /\ call.start < call.end
    /\ Len(results) = 2
    /\ Len(diary) = 3
    /\ diary[1].entry_date > diary[2].entry_date
    /\ results[1].is_complete /\ results[1].symptoms # << >>
    /\ ~results[2].is_complete

\* A get_entry of a date without an entry, in a store that holds others,
\* answers None
C30_DeletedIsNone ==
    /\ call.op = "get_entry"
    /\ results = << >>
    /\ diary # << >>

====
